---------------------------- MODULE Spec2Model ----------------------------
(***************************************************************************)
(* A model of the server reward system of SamplesCode_GachaSystem:         *)
(*   - RollRandomReward / AddPickupReward / OnPostGive_Gacha               *)
(*     (RewardSystem/ServerRewardSystem_Gacha.cpp)                         *)
(*   - SimulateRewards / AddInventoryItem / RemoveInventoryItem /          *)
(*     OnUpdateItemAmount (RewardSystem/ServerRewardSystem_Inventory.cpp)  *)
(*   - UVideoPlayer (VideoPlayerSystem/VideoPlayer_Core.cpp)               *)
(* The specifications share the variables; each drives one part and        *)
(* leaves the others at rest:                                              *)
(*   SpecRoll   the weighted roll as a pure function of pool and draw      *)
(*   SpecGacha  draw requests against the persisted pity counters          *)
(*   SpecSim    SimulateRewards over bounded batches and inventories       *)
(*   SpecInv    inventory mutations queued on a task and committed         *)
(*   SpecPair   two callers of OnPostGive_Gacha on one pool                *)
(*   SpecBuild  BuildRewardData over nested reward rows                    *)
(*   SpecVideo  UVideoPlayer driven by PlayVideos and the media events     *)
(***************************************************************************)
EXTENDS Integers, Sequences, FiniteSets, TLC

VARIABLES
    \* ---- weighted roll (SpecRoll)
    rollData,       \* InRewardData of the call
    rollNumber,     \* RandomNumber drawn by FMath::RandRange
    rollReward,     \* the FRewardHandler returned
    rollGroup,      \* OutPickupGroup after the call
    rollDone,       \* the call has returned
    \* ---- draw requests (SpecGacha)
    RewardData,             \* URewardDataTable::FindRow(InReward->TypeRowName)
    CampaignData,           \* the campaign row found by the Visit, or NullRow
    savedCounter,           \* the counters UContentsAlarmSave holds for the pool
    NormalPickupCounter,    \* member of UServerRewardSystem
    SpecialPickupCounter,   \* member of UServerRewardSystem
    RewardHandlers,         \* the local array of the running request
    PickupCount,            \* InReward->Amount of the running request
    Index,                  \* the loop variable of the running request
    gachaPc,                \* "idle", or "draw" inside the for loop
    lastDraw,               \* what the latest loop iteration did
    lastRequest,            \* how the latest request ended
    preSaved,               \* savedCounter when the latest request began
    sinceSpecial,           \* draws since a reward of tier >= SpecialPickupGroup
    sinceNormal,            \* draws since a reward of tier >= NormalPickupGroup
    \* ---- SimulateRewards (SpecSim)
    simInput,       \* InRewards as the caller passed it
    InRewards,      \* the caller's array, rewritten in place by the call
    InUpdatedItem,  \* the pending items of the same transaction
    bCheckInventory,
    userAmount,     \* UUserData_Inventory::GetAmount, per item row name
    slotCount,      \* UUserData_Inventory::GetItemSlotCount()
    maxCapacity,    \* UUserData_Inventory::GetMaxCapacity()
    balance,        \* the currency balance URewardManager::Simulate reads
    simResult,      \* "none" before the call, then "accepted" or "rejected"
    simWhy,         \* why the call returned false
    SlotAmount,     \* the local SlotAmount when the call returned
    \* ---- inventory mutations (SpecInv)
    dbItem,         \* the stored item rows: records ItemUID, ItemID, Amount
    dbInventory,    \* the stored inventory rows: ItemUIDs
    dbEquipment,    \* the stored equip-state rows: ItemUIDs
    dbOption,       \* the stored item option rows
    lastRowId,      \* the last row id the item table handed out
    userItems,      \* the UNetItems of the user data, by ItemUID
    Task,           \* the queries queued on the FSqliteQueryTask
    taskState,      \* "open", "committed" or "failed"
    taskNo,         \* the tasks opened so far
    dbAtBegin,      \* the stored rows when the task was opened
    lastCall,       \* the latest call and what it returned
    \* ---- two callers of OnPostGive_Gacha on one pool (SpecPair)
    pairRequest,    \* per caller: where its request is, its PickupCount and Index
    pairProgress,   \* the counters as the draws made so far, in order, leave them
    \* ---- BuildRewardData (SpecBuild)
    buildStack,         \* the activations of BuildRewardData, innermost last
    InRewardHandlers,   \* the array the activations append to
    RewardHandler,      \* what the name RewardHandler denotes inside AddReward
    buildCalls,         \* the calls of BuildRewardData made so far
    buildDraws,         \* the RandomNumbers drawn so far, with the call that drew
    buildState,         \* "idle", "running", "done" or "overflow"
    \* ---- UVideoPlayer (SpecVideo)
    VideoQueue,             \* TArray<FVideoPlayHandler>
    CurrentVideoIndex,      \* index into VideoQueue from 0, INDEX_NONE at first
    MaxVideoIndex,
    MediaHandler,           \* the handler PlayVideo last accepted
    bOpenVideo,
    BlockHandler,           \* TRUE while the unique pointer holds a block handler
    bVideoAudioFocusActive,
    uiOpen,                 \* the video UI is open
    mediaState,             \* UMediaPlayer: "closed", "opening", "playing",
                            \* "stopped" (reached its end) or "failed"
    bLooping,               \* UMediaPlayer::SetLooping
    lastVideoCall           \* the latest call or event handler and what it did

rollVars == <<rollData, rollNumber, rollReward, rollGroup, rollDone>>

gachaVars ==
    <<RewardData, CampaignData, savedCounter, NormalPickupCounter,
      SpecialPickupCounter, RewardHandlers, PickupCount, Index, gachaPc,
      lastDraw, lastRequest, preSaved, sinceSpecial, sinceNormal>>

simVars ==
    <<simInput, InRewards, InUpdatedItem, bCheckInventory, userAmount,
      slotCount, maxCapacity, balance, simResult, simWhy, SlotAmount>>

invVars ==
    <<dbItem, dbInventory, dbEquipment, dbOption, lastRowId, userItems, Task,
      taskState, taskNo, dbAtBegin, lastCall>>

pairVars == <<pairRequest, pairProgress>>

buildVars ==
    <<buildStack, InRewardHandlers, RewardHandler, buildCalls, buildDraws,
      buildState>>

videoVars ==
    <<VideoQueue, CurrentVideoIndex, MaxVideoIndex, MediaHandler, bOpenVideo,
      BlockHandler, bVideoAudioFocusActive, uiOpen, mediaState, bLooping,
      lastVideoCall>>

vars ==
    <<rollVars, gachaVars, simVars, invVars, pairVars, buildVars, videoVars>>

\* what the actions of one part leave alone
notRoll == <<gachaVars, simVars, invVars, pairVars, buildVars, videoVars>>
notGacha == <<rollVars, simVars, invVars, pairVars, buildVars, videoVars>>
notSim == <<rollVars, gachaVars, invVars, pairVars, buildVars, videoVars>>
notInv == <<rollVars, gachaVars, simVars, pairVars, buildVars, videoVars>>
notPair == <<rollVars, simVars, invVars, buildVars, videoVars>>
notBuild == <<rollVars, gachaVars, simVars, invVars, pairVars, videoVars>>
notVideo == <<rollVars, gachaVars, simVars, invVars, pairVars, buildVars>>

(***************************************************************************)
(* FRewardHandler values                                                   *)
(***************************************************************************)
Handler(type, name, amount, source) ==
    [RewardType |-> type, TypeRowName |-> name, Amount |-> amount,
     AcquireSource |-> source]

\* FRewardHandler(EReward::None, NAME_None, 0)
NoneReward == Handler("None", "NAME_None", 0, "None")

\* one URewardGachaRandomData row
GachaRandom(weight, group, name) ==
    [Weight |-> weight, PickupGroup |-> group,
     Reward |-> Handler("Item", name, 1, "None")]

RECURSIVE SumWeights(_, _)
\* the cumulative weight of the first n rows of a table
SumWeights(rows, n) ==
    IF n = 0 THEN 0 ELSE SumWeights(rows, n - 1) + rows[n].Weight

(***************************************************************************)
(* RollRandomReward                                                        *)
(***************************************************************************)
RECURSIVE RollWalk_Strict(_, _, _, _)
\* mutant of RollWalk: the comparison is > instead of >=
RollWalk_Strict(rows, i, CurrentWeight, RandomNumber) ==
    IF i > Len(rows) THEN 0
    ELSE IF CurrentWeight + rows[i].Weight > RandomNumber THEN i
    ELSE RollWalk_Strict(rows, i + 1, CurrentWeight + rows[i].Weight, RandomNumber)

RECURSIVE RollWalk_Late(_, _, _, _)
\* mutant of RollWalk: the comparison is made before the weight is added
RollWalk_Late(rows, i, CurrentWeight, RandomNumber) ==
    IF i > Len(rows) THEN 0
    ELSE IF CurrentWeight >= RandomNumber THEN i
    ELSE RollWalk_Late(rows, i + 1, CurrentWeight + rows[i].Weight, RandomNumber)

RECURSIVE RollWalk(_, _, _, _)
\* the for loop of RollRandomReward from row i on: the index of the row that
\* returns, 0 when the loop runs off the table
RollWalk(rows, i, CurrentWeight, RandomNumber) ==
    IF i > Len(rows) THEN 0
    ELSE IF CurrentWeight + rows[i].Weight >= RandomNumber THEN i
    ELSE RollWalk(rows, i + 1, CurrentWeight + rows[i].Weight, RandomNumber)

\* RollRandomReward(InRewardData, OutPickupGroup) with the value RandRange gave
RollRandomReward(InRewardData, RandomNumber, OutPickupGroup) ==
    LET hit == RollWalk(InRewardData.GachaRandoms, 1, 0, RandomNumber)
    IN  IF hit > 0
        THEN [Reward |-> InRewardData.GachaRandoms[hit].Reward,
              OutPickupGroup |-> InRewardData.GachaRandoms[hit].PickupGroup,
              Index |-> hit]
        ELSE [Reward |-> NoneReward, OutPickupGroup |-> OutPickupGroup,
              Index |-> 0]

(***************************************************************************)
(* SpecRoll: pools of up to MaxEntries rows with weights 0..MaxWeight, and *)
(* the pool of the comment of RollRandomReward (A 70, B 25, C 5).          *)
(***************************************************************************)
MaxEntries == 3
MaxWeight == 2

RewardNames == <<"A", "B", "C", "D", "E", "F">>

\* the table whose i-th row has weight w[i], tier i and reward RewardNames[i]
TableOf(w) == [i \in 1..Len(w) |-> GachaRandom(w[i], i, RewardNames[i])]

RewardDataOf(rows, total) == [GachaRandoms |-> rows, TotalGachaWeight |-> total]

SamplePool ==
    RewardDataOf(<<GachaRandom(70, 1, "A"), GachaRandom(25, 2, "B"),
                   GachaRandom(5, 3, "C")>>, 100)

WeightTables ==
    { TableOf(w) : w \in UNION { [1..n -> 0..MaxWeight] : n \in 1..MaxEntries } }

\* TotalGachaWeight is a field of the data row of its own: the pools where it
\* is the sum of the weights, and the pools where it exceeds that sum by one
RollPools ==
    { RewardDataOf(t, SumWeights(t, Len(t)) + extra) :
        t \in WeightTables, extra \in {0, 1} } \cup {SamplePool}

RollInit ==
    /\ rollData \in RollPools
    /\ rollNumber = 0
    /\ rollReward = NoneReward
    /\ rollGroup = 0
    /\ rollDone = FALSE

RollIdle ==
    /\ rollData = RewardDataOf(<<>>, 0)
    /\ rollNumber = 0
    /\ rollReward = NoneReward
    /\ rollGroup = 0
    /\ rollDone = FALSE

\* one call RollRandomReward(RewardData, PickupGroup) with PickupGroup = 0, as
\* OnPostGive_Gacha makes it (its guard TotalGachaWeight > 0 included)
Roll ==
    /\ ~rollDone
    /\ rollData.TotalGachaWeight > 0
    /\ \E RandomNumber \in 1..rollData.TotalGachaWeight :
         LET r == RollRandomReward(rollData, RandomNumber, 0)
         IN  /\ rollNumber' = RandomNumber
             /\ rollReward' = r.Reward
             /\ rollGroup' = r.OutPickupGroup
    /\ rollDone' = TRUE
    /\ UNCHANGED <<rollData, notRoll>>

(***************************************************************************)
(* AddPickupReward                                                         *)
(***************************************************************************)
\* a null TObjectPtr / a null row pointer
NullRow == [Null |-> TRUE]

\* mutant of PickupCandidates: a row of weight 0 is not collected
PickupCandidates_Weighted(InRewardData, InPickupGroup) ==
    IF InRewardData = NullRow THEN <<>>
    ELSE SelectSeq(InRewardData.GachaRandoms,
                   LAMBDA Data : Data.PickupGroup >= InPickupGroup
                                 /\ Data.Weight > 0)

\* the rows AddPickupReward collects into GachaRandomsData
PickupCandidates(InRewardData, InPickupGroup) ==
    IF InRewardData = NullRow THEN <<>>
    ELSE SelectSeq(InRewardData.GachaRandoms,
                   LAMBDA Data : Data.PickupGroup >= InPickupGroup)

\* AddPickupReward(InRewardData, InPickupGroup) with the Index RandRange gave
AddPickupReward(InRewardData, InPickupGroup, RandIndex) ==
    LET GachaRandomsData == PickupCandidates(InRewardData, InPickupGroup)
    IN  IF InRewardData = NullRow THEN NoneReward
        ELSE IF GachaRandomsData = <<>> THEN NoneReward
        ELSE GachaRandomsData[RandIndex + 1].Reward

\* the values FMath::RandRange(0, GachaRandomsData.Num() - 1) can give; no
\* random number is drawn when the array is empty
PickupIndexes(InRewardData, InPickupGroup) ==
    LET n == Len(PickupCandidates(InRewardData, InPickupGroup))
    IN  IF n = 0 THEN {0} ELSE 0..(n - 1)

(***************************************************************************)
(* OnPostGive_Gacha                                                        *)
(***************************************************************************)
\* the fixed cadence of the normal pity ("NormalPickupCounter >= 10")
NormalPityCount == 10

\* mutant of SpecialPityDue: the ceiling is compared with > instead of >=
SpecialPityDue_Late(campaign, counter) ==
    campaign.SpecialPickupGroup > 0 /\ counter > campaign.SpecialTryCount

\* mutant of SpecialPityDue: the special pity branch is never taken
SpecialPityDue_Never(campaign, counter) == FALSE

\* "if (SpecialPickupGroup > 0 && SpecialPickupCounter >= SpecialTryCount)"
SpecialPityDue(campaign, counter) ==
    campaign.SpecialPickupGroup > 0 /\ counter >= campaign.SpecialTryCount

\* "else if (NormalPickupGroup > 0 && NormalPickupCounter >= 10)"
NormalPityDue(campaign, counter) ==
    campaign.NormalPickupGroup > 0 /\ counter >= NormalPityCount

\* mutant of CountersAfterRoll: a roll of the normal tier resets the special
\* counter too
CountersAfterRoll_ResetsAll(campaign, PickupGroup, n, s) ==
    IF PickupGroup >= campaign.SpecialPickupGroup
         \/ PickupGroup >= campaign.NormalPickupGroup
    THEN [Normal |-> 0, Special |-> 0]
    ELSE [Normal |-> n, Special |-> s]

\* mutant of CountersAfterRoll: a hit subtracts the cadence from the counters
\* instead of resetting them
CountersAfterRoll_Subtract(campaign, PickupGroup, n, s) ==
    IF PickupGroup >= campaign.SpecialPickupGroup
    THEN [Normal |-> n - NormalPityCount,
          Special |-> s - campaign.SpecialTryCount]
    ELSE IF PickupGroup >= campaign.NormalPickupGroup
    THEN [Normal |-> n - NormalPityCount, Special |-> s]
    ELSE [Normal |-> n, Special |-> s]

\* the counters after a normal roll of tier PickupGroup ("높은 등급 획득 시
\* 카운터 리셋"), from the incremented counters n and s
CountersAfterRoll(campaign, PickupGroup, n, s) ==
    IF PickupGroup >= campaign.SpecialPickupGroup
    THEN [Normal |-> 0, Special |-> 0]
    ELSE IF PickupGroup >= campaign.NormalPickupGroup
    THEN [Normal |-> 0, Special |-> s]
    ELSE [Normal |-> n, Special |-> s]

MaxPickupCount == 2      \* the largest InReward->Amount of a request
MaxTryCount == 12        \* the largest SpecialTryCount of a campaign

Min(a, b) == IF a < b THEN a ELSE b

\* the pools of the draw requests: tiers 1..3, tiers 1..3 with a top row of
\* weight 0, tiers 1..2 (nothing for a special pity of tier 3), tier 1 only
\* (nothing for either pity), and a pool whose TotalGachaWeight is 0
PoolFull ==
    RewardDataOf(<<GachaRandom(2, 1, "A"), GachaRandom(1, 2, "B"),
                   GachaRandom(1, 3, "C")>>, 4)
PoolZeroTop ==
    RewardDataOf(<<GachaRandom(2, 1, "A"), GachaRandom(1, 2, "B"),
                   GachaRandom(0, 3, "C")>>, 3)
PoolNoTop ==
    RewardDataOf(<<GachaRandom(2, 1, "A"), GachaRandom(1, 2, "B")>>, 3)
PoolLowOnly ==
    RewardDataOf(<<GachaRandom(1, 1, "A")>>, 1)
PoolNoWeight ==
    RewardDataOf(<<GachaRandom(0, 1, "A")>>, 0)

GachaPools == {PoolFull, PoolZeroTop, PoolNoTop, PoolLowOnly, PoolNoWeight, NullRow}

Campaigns ==
    [NormalPickupGroup : {0, 2}, SpecialPickupGroup : {0, 3},
     SpecialTryCount : {2, MaxTryCount}] \cup {NullRow}

NoDraw ==
    [path |-> "none", reward |-> NoneReward, tier |-> 0, empty |-> FALSE,
     n0 |-> 0, s0 |-> 0]

GachaInit ==
    /\ RewardData \in GachaPools
    /\ CampaignData \in Campaigns
    /\ savedCounter = [Normal |-> 0, Special |-> 0]
    /\ NormalPickupCounter = 0
    /\ SpecialPickupCounter = 0
    /\ RewardHandlers = <<>>
    /\ PickupCount = 0
    /\ Index = 0
    /\ gachaPc = "idle"
    /\ lastDraw = NoDraw
    /\ lastRequest = "none"
    /\ preSaved = [Normal |-> 0, Special |-> 0]
    /\ sinceSpecial = 0
    /\ sinceNormal = 0

GachaIdle ==
    /\ RewardData = NullRow
    /\ CampaignData = NullRow
    /\ savedCounter = [Normal |-> 0, Special |-> 0]
    /\ NormalPickupCounter = 0
    /\ SpecialPickupCounter = 0
    /\ RewardHandlers = <<>>
    /\ PickupCount = 0
    /\ Index = 0
    /\ gachaPc = "idle"
    /\ lastDraw = NoDraw
    /\ lastRequest = "none"
    /\ preSaved = [Normal |-> 0, Special |-> 0]
    /\ sinceSpecial = 0
    /\ sinceNormal = 0

\* mutant of NothingToDraw: only negative values are refused
NothingToDraw_Negative(TotalGachaWeight, Amount) ==
    TotalGachaWeight < 0 \/ Amount < 0

\* "if (RewardData->TotalGachaWeight <= 0 || PickupCount <= 0) return;"
NothingToDraw(TotalGachaWeight, Amount) ==
    TotalGachaWeight <= 0 \/ Amount <= 0

\* OnPostGive_Gacha up to the for loop: the lookups, the load of the counters
\* and the guard on TotalGachaWeight and PickupCount
BeginRequest ==
    /\ gachaPc = "idle"
    /\ \E Amount \in 0..MaxPickupCount :
         /\ preSaved' = savedCounter
         /\ lastDraw' = NoDraw
         /\ IF RewardData = NullRow \/ CampaignData = NullRow
            THEN /\ lastRequest' = "refused"
                 /\ UNCHANGED <<NormalPickupCounter, SpecialPickupCounter,
                                RewardHandlers, PickupCount, Index, gachaPc>>
            ELSE \* GetGachaCounter(InReward->TypeRowName, Normal, Special)
                 /\ NormalPickupCounter' = savedCounter.Normal
                 /\ SpecialPickupCounter' = savedCounter.Special
                 /\ IF NothingToDraw(RewardData.TotalGachaWeight, Amount)
                    THEN /\ lastRequest' = "refused"
                         /\ UNCHANGED <<RewardHandlers, PickupCount, Index, gachaPc>>
                    ELSE /\ lastRequest' = "running"
                         /\ RewardHandlers' = <<>>
                         /\ PickupCount' = Amount
                         /\ Index' = 0
                         /\ gachaPc' = "draw"
    /\ UNCHANGED <<RewardData, CampaignData, savedCounter, sinceSpecial,
                   sinceNormal, notGacha>>

\* the bookkeeping of one loop iteration that gave Reward of tier `tier`
DrawDone(path, Reward, tier, empty, counters) ==
    /\ RewardHandlers' = Append(RewardHandlers, Reward)
    /\ NormalPickupCounter' = counters.Normal
    /\ SpecialPickupCounter' = counters.Special
    /\ Index' = Index + 1
    /\ lastDraw' = [path |-> path, reward |-> Reward, tier |-> tier,
                    empty |-> empty, n0 |-> NormalPickupCounter,
                    s0 |-> SpecialPickupCounter]
    /\ sinceSpecial' = IF tier >= CampaignData.SpecialPickupGroup THEN 0
                       ELSE Min(sinceSpecial + 1, MaxTryCount)
    /\ sinceNormal' = IF tier >= CampaignData.NormalPickupGroup THEN 0
                      ELSE Min(sinceNormal + 1, NormalPityCount)
    /\ UNCHANGED <<RewardData, CampaignData, savedCounter, PickupCount,
                   gachaPc, lastRequest, preSaved, notGacha>>

\* the tier of the row AddPickupReward returns, 0 when it returns the None reward
PickupTier(InRewardData, InPickupGroup, RandIndex) ==
    LET c == PickupCandidates(InRewardData, InPickupGroup)
    IN  IF c = <<>> THEN 0 ELSE c[RandIndex + 1].PickupGroup

\* a loop iteration that takes the special pity branch
DrawSpecialPity ==
    /\ gachaPc = "draw" /\ Index < PickupCount
    /\ SpecialPityDue(CampaignData, SpecialPickupCounter + 1)
    /\ \E RandIndex \in PickupIndexes(RewardData, CampaignData.SpecialPickupGroup) :
         DrawDone("special",
                  AddPickupReward(RewardData, CampaignData.SpecialPickupGroup, RandIndex),
                  PickupTier(RewardData, CampaignData.SpecialPickupGroup, RandIndex),
                  PickupCandidates(RewardData, CampaignData.SpecialPickupGroup) = <<>>,
                  [Normal |-> 0, Special |-> 0])

\* a loop iteration that takes the normal pity branch
DrawNormalPity ==
    /\ gachaPc = "draw" /\ Index < PickupCount
    /\ ~SpecialPityDue(CampaignData, SpecialPickupCounter + 1)
    /\ NormalPityDue(CampaignData, NormalPickupCounter + 1)
    /\ \E RandIndex \in PickupIndexes(RewardData, CampaignData.NormalPickupGroup) :
         DrawDone("normal",
                  AddPickupReward(RewardData, CampaignData.NormalPickupGroup, RandIndex),
                  PickupTier(RewardData, CampaignData.NormalPickupGroup, RandIndex),
                  PickupCandidates(RewardData, CampaignData.NormalPickupGroup) = <<>>,
                  [Normal |-> 0, Special |-> SpecialPickupCounter + 1])

\* a loop iteration that takes neither: the normal weighted roll
DrawRoll ==
    /\ gachaPc = "draw" /\ Index < PickupCount
    /\ ~SpecialPityDue(CampaignData, SpecialPickupCounter + 1)
    /\ ~NormalPityDue(CampaignData, NormalPickupCounter + 1)
    /\ \E RandomNumber \in 1..RewardData.TotalGachaWeight :
         LET r == RollRandomReward(RewardData, RandomNumber, 0)
         IN  DrawDone("roll", r.Reward, r.OutPickupGroup, FALSE,
                      CountersAfterRoll(CampaignData, r.OutPickupGroup,
                                        NormalPickupCounter + 1,
                                        SpecialPickupCounter + 1))

\* OnPostGive_Gacha after the loop: URewardManager::GiveRewards, whose outcome
\* the function does not look at, then SetGachaCounter
EndRequest ==
    /\ gachaPc = "draw" /\ Index = PickupCount
    /\ \E accepted \in BOOLEAN :
         lastRequest' = IF Len(RewardHandlers) = PickupCount
                        THEN (IF accepted THEN "given" ELSE "rejected")
                        ELSE "notgiven"
    /\ savedCounter' = [Normal |-> NormalPickupCounter,
                        Special |-> SpecialPickupCounter]
    /\ RewardHandlers' = <<>>
    /\ lastDraw' = NoDraw
    /\ gachaPc' = "idle"
    /\ UNCHANGED <<RewardData, CampaignData, NormalPickupCounter,
                   SpecialPickupCounter, PickupCount, Index, preSaved,
                   sinceSpecial, sinceNormal, notGacha>>

GachaNext ==
    \/ BeginRequest
    \/ DrawSpecialPity
    \/ DrawNormalPity
    \/ DrawRoll
    \/ EndRequest

(***************************************************************************)
(* SimulateRewards                                                         *)
(***************************************************************************)
\* the rows of UItemDataTable: two stackable items, a non-stackable one, and
\* a stackable one that takes no inventory slot; "ghost" has no row
ItemDataTable ==
    [itemA |-> [MaxStackAmount |-> 5, NonStackable |-> FALSE,
                RequiresInventorySlot |-> TRUE, ItemType |-> "Consume"],
     itemB |-> [MaxStackAmount |-> 5, NonStackable |-> FALSE,
                RequiresInventorySlot |-> TRUE, ItemType |-> "Consume"],
     sword |-> [MaxStackAmount |-> 1, NonStackable |-> TRUE,
                RequiresInventorySlot |-> TRUE, ItemType |-> "Equip"],
     token |-> [MaxStackAmount |-> 5, NonStackable |-> FALSE,
                RequiresInventorySlot |-> FALSE, ItemType |-> "Valuable"]]

\* UItemDataTable::FindRow<FItemBaseData>(name)
FindItemData(name) ==
    IF name \in DOMAIN ItemDataTable THEN ItemDataTable[name] ELSE NullRow

\* URewardManager::Simulate(&Reward), the per-reward admissibility check: a
\* currency debit must leave the balance >= 0
RewardManagerSimulate(Reward, bal) ==
    IF Reward.RewardType = "Currency" THEN bal + Reward.Amount >= 0 ELSE TRUE

\* StackableCounts.FindOrAdd(name) += amount, on a map kept in insertion order
AddCount(counts, name, amount) ==
    IF \E k \in 1..Len(counts) : counts[k].Key = name
    THEN [k \in 1..Len(counts) |->
            IF counts[k].Key = name
            THEN [Key |-> name, Value |-> counts[k].Value + amount]
            ELSE counts[k]]
    ELSE Append(counts, [Key |-> name, Value |-> amount])

RECURSIVE Classify(_, _, _)
\* step 1, the loop over InRewards from index i on: acc.Kept is what stays in
\* InRewards, acc.NonStackablePass and acc.StackableCounts what was moved out
Classify(rewards, i, acc) ==
    IF i > Len(rewards) THEN acc
    ELSE LET Reward == rewards[i]
             ItemData == FindItemData(Reward.TypeRowName)
         IN  IF Reward.RewardType # "Item"
             THEN Classify(rewards, i + 1,
                           [acc EXCEPT !.Kept = Append(@, Reward)])
             ELSE IF ItemData = NullRow
             THEN Classify(rewards, i + 1,
                           [acc EXCEPT !.Kept = Append(@, Reward)])
             ELSE IF ItemData.NonStackable
             THEN Classify(rewards, i + 1,
                           [acc EXCEPT !.NonStackablePass = Append(@, Reward)])
             ELSE Classify(rewards, i + 1,
                           [acc EXCEPT !.StackableCounts =
                                 AddCount(@, Reward.TypeRowName, Reward.Amount)])

\* step 2: one reward per pair of StackableCounts whose Amount is not 0
MergedRewards(counts, DefaultSource) ==
    LET nonZero == SelectSeq(counts, LAMBDA Pair : Pair.Value # 0)
    IN  [k \in 1..Len(nonZero) |->
            Handler("Item", nonZero[k].Key, nonZero[k].Value, DefaultSource)]

\* steps 1 and 2: InRewards after the merge
MergeRewards(rewards) ==
    LET DefaultSource ==
            IF Len(rewards) > 0 THEN rewards[1].AcquireSource ELSE "None"
        acc == Classify(rewards, 1,
                        [Kept |-> <<>>, NonStackablePass |-> <<>>,
                         StackableCounts |-> <<>>])
    IN  acc.Kept \o MergedRewards(acc.StackableCounts, DefaultSource)
                 \o acc.NonStackablePass

\* step 4: what one pending item adds to SlotAmount
UpdatedSlotDelta(It) ==
    IF It = NullRow \/ It.ItemData = NullRow THEN 0
    ELSE IF ~It.ItemData.RequiresInventorySlot THEN 0
    ELSE IF It.ItemData.NonStackable
    THEN (IF It.Amount > 0 THEN It.Amount
          ELSE IF It.Amount < 0 THEN -(-It.Amount) ELSE 0)
    ELSE (IF It.Amount > 0 THEN 1 ELSE -1)

RECURSIVE UpdatedSlots(_, _)
\* steps 3 and 4 over the first n pending items
UpdatedSlots(updated, n) ==
    IF n = 0 THEN 0
    ELSE UpdatedSlots(updated, n - 1) + UpdatedSlotDelta(updated[n])

\* mutant of SkipsSlotCheck: the acquisition source is not looked at
SkipsSlotCheck_AnySource(Reward) ==
    Reward.RewardType # "Item"

\* "if (Reward.RewardType != EReward::Item || Reward.AcquireSource !=
\* ERewardSource::None) continue;"
SkipsSlotCheck(Reward) ==
    Reward.RewardType # "Item" \/ Reward.AcquireSource # "None"

\* step 5: what a reward that is checked adds to SlotAmount
RewardSlotDelta(Reward, ItemData, UserAmount) ==
    IF ItemData.NonStackable
    THEN (IF Reward.Amount > 0 THEN Reward.Amount
          ELSE IF Reward.Amount < 0 THEN -Min(UserAmount, -Reward.Amount)
          ELSE 0)
    ELSE (IF Reward.Amount > 0 THEN (IF UserAmount = 0 THEN 1 ELSE 0)
          ELSE IF Reward.Amount < 0
          THEN (IF UserAmount + Reward.Amount <= 0 THEN -1 ELSE 0)
          ELSE 0)

\* mutant of ExceedsCapacity: the inventory counts as full one slot late
ExceedsCapacity_Late(slots, MaxCapacity) == slots > MaxCapacity + 1

\* step 6: "if (SlotAmount > MaxCapacity)"
ExceedsCapacity(slots, MaxCapacity) == slots > MaxCapacity

RECURSIVE SimWalk_Unenforced(_, _, _, _)
\* mutant of SimWalk: URewardManager::Simulate is called only when the
\* inventory is checked
SimWalk_Unenforced(rewards, i, slots, env) ==
    IF i > Len(rewards) THEN [ok |-> TRUE, why |-> "none", SlotAmount |-> slots]
    ELSE LET Reward == rewards[i]
             ItemData == FindItemData(Reward.TypeRowName)
         IN  IF ~env.bCheckInventory
             THEN SimWalk_Unenforced(rewards, i + 1, slots, env)
             ELSE IF ~RewardManagerSimulate(Reward, env.balance)
             THEN [ok |-> FALSE, why |-> "RewardRejected", SlotAmount |-> slots]
             ELSE IF SkipsSlotCheck(Reward)
                       \/ ItemData = NullRow
                       \/ ~ItemData.RequiresInventorySlot
             THEN SimWalk_Unenforced(rewards, i + 1, slots, env)
             ELSE LET next == slots + RewardSlotDelta(Reward, ItemData,
                                         env.userAmount[Reward.TypeRowName])
                  IN  IF ExceedsCapacity(next, env.maxCapacity)
                      THEN [ok |-> FALSE, why |-> "CapacityExceeded",
                            SlotAmount |-> next]
                      ELSE SimWalk_Unenforced(rewards, i + 1, next, env)

RECURSIVE SimWalk(_, _, _, _)
\* step 5 and 6, the loop over the merged InRewards from index i on with the
\* running SlotAmount; env holds what the getters return
SimWalk(rewards, i, slots, env) ==
    IF i > Len(rewards) THEN [ok |-> TRUE, why |-> "none", SlotAmount |-> slots]
    ELSE LET Reward == rewards[i]
             ItemData == FindItemData(Reward.TypeRowName)
         IN  IF ~RewardManagerSimulate(Reward, env.balance)
             THEN [ok |-> FALSE, why |-> "RewardRejected", SlotAmount |-> slots]
             ELSE IF ~env.bCheckInventory
             THEN SimWalk(rewards, i + 1, slots, env)
             ELSE IF SkipsSlotCheck(Reward)
             THEN SimWalk(rewards, i + 1, slots, env)
             ELSE IF ItemData = NullRow
             THEN SimWalk(rewards, i + 1, slots, env)
             ELSE IF ~ItemData.RequiresInventorySlot
             THEN SimWalk(rewards, i + 1, slots, env)
             ELSE LET next == slots + RewardSlotDelta(Reward, ItemData,
                                         env.userAmount[Reward.TypeRowName])
                  IN  IF ExceedsCapacity(next, env.maxCapacity)
                      THEN [ok |-> FALSE, why |-> "CapacityExceeded",
                            SlotAmount |-> next]
                      ELSE SimWalk(rewards, i + 1, next, env)

\* SimulateRewards(InRewards, InUpdatedItem, bCheckInventory): the value
\* returned, InRewards as the call leaves it, and the final SlotAmount
SimulateRewards(rewards, updated, check, env) ==
    LET merged == MergeRewards(rewards)
        base == env.slotCount + UpdatedSlots(updated, Len(updated))
        walk == SimWalk(merged, 1, base,
                        [env EXCEPT !.bCheckInventory = check])
    IN  [ok |-> walk.ok, why |-> walk.why, InRewards |-> merged,
         SlotAmount |-> walk.SlotAmount]

(***************************************************************************)
(* SpecSim: batches of up to MaxBatch rewards over SimRewardSet, against   *)
(* inventories that are full or one slot short of full.                    *)
(***************************************************************************)
MaxBatch == 3
MaxCapacity == 5

SimRewardSet ==
    { Handler("Item", "itemA", 3, "None"),
      Handler("Item", "itemA", 3, "Shop"),
      Handler("Item", "itemA", -3, "None"),
      Handler("Item", "itemB", 1, "None"),
      Handler("Item", "sword", 1, "None"),
      Handler("Item", "sword", 1, "Shop"),
      Handler("Item", "sword", -1, "None"),
      Handler("Item", "ghost", 1, "None"),
      Handler("Currency", "gold", -1, "None") }

SimBatches == UNION { [1..n -> SimRewardSet] : n \in 0..MaxBatch }

\* the players: the amounts held and the currency balance
SimPlayers ==
    { [userAmount |-> [itemA |-> 0, itemB |-> 0, sword |-> 0, token |-> 0, ghost |-> 0],
       balance |-> 0],
      [userAmount |-> [itemA |-> 3, itemB |-> 0, sword |-> 0, token |-> 0, ghost |-> 0],
       balance |-> 1],
      [userAmount |-> [itemA |-> 3, itemB |-> 2, sword |-> 1, token |-> 1, ghost |-> 0],
       balance |-> 1] }

\* a pending UNetItem
NetItemOf(name, amount) ==
    [ItemID |-> name, ItemData |-> FindItemData(name), Amount |-> amount]

SimUpdatedSets ==
    { <<>>, <<NetItemOf("itemA", 1)>>, <<NetItemOf("sword", -1)>> }

SimEnv ==
    [userAmount |-> userAmount, slotCount |-> slotCount,
     maxCapacity |-> maxCapacity, balance |-> balance,
     bCheckInventory |-> bCheckInventory]

SimInit ==
    /\ simInput \in SimBatches
    /\ InRewards = simInput
    /\ InUpdatedItem \in SimUpdatedSets
    /\ bCheckInventory \in BOOLEAN
    /\ \E player \in SimPlayers :
         /\ userAmount = player.userAmount
         /\ balance = player.balance
    /\ maxCapacity = MaxCapacity
    /\ slotCount \in {MaxCapacity - 1, MaxCapacity}
    /\ simResult = "none"
    /\ simWhy = "none"
    /\ SlotAmount = 0

SimIdle ==
    /\ simInput = <<>>
    /\ InRewards = <<>>
    /\ InUpdatedItem = <<>>
    /\ bCheckInventory = TRUE
    /\ userAmount = [itemA |-> 0, itemB |-> 0, sword |-> 0, token |-> 0, ghost |-> 0]
    /\ maxCapacity = MaxCapacity
    /\ slotCount = 0
    /\ balance = 0
    /\ simResult = "none"
    /\ simWhy = "none"
    /\ SlotAmount = 0

\* mutant of Simulate: the call also writes its projected SlotAmount to the
\* slot count of the user data
Simulate_Commits ==
    /\ simResult = "none"
    /\ LET r == SimulateRewards(InRewards, InUpdatedItem, bCheckInventory, SimEnv)
       IN  /\ InRewards' = r.InRewards
           /\ simResult' = IF r.ok THEN "accepted" ELSE "rejected"
           /\ simWhy' = r.why
           /\ SlotAmount' = r.SlotAmount
           /\ slotCount' = r.SlotAmount
    /\ UNCHANGED <<simInput, InUpdatedItem, bCheckInventory, userAmount,
                   maxCapacity, balance, notSim>>

\* one call of SimulateRewards
Simulate ==
    /\ simResult = "none"
    /\ LET r == SimulateRewards(InRewards, InUpdatedItem, bCheckInventory, SimEnv)
       IN  /\ InRewards' = r.InRewards
           /\ simResult' = IF r.ok THEN "accepted" ELSE "rejected"
           /\ simWhy' = r.why
           /\ SlotAmount' = r.SlotAmount
    /\ UNCHANGED <<simInput, InUpdatedItem, bCheckInventory, userAmount,
                   slotCount, maxCapacity, balance, notSim>>

(***************************************************************************)
(* AddInventoryItem, RemoveInventoryItem, OnUpdateItemAmount, BuildOptions *)
(***************************************************************************)
\* FMath::Clamp(x, lo, hi)
Clamp(x, lo, hi) == IF x < lo THEN lo ELSE IF x > hi THEN hi ELSE x

\* the queries of SqlGameQuery
Query(kind, uid, arg) == [Query |-> kind, ItemUID |-> uid, Arg |-> arg]

\* the stored rows as one value
DbRows ==
    [Item |-> dbItem, Inventory |-> dbInventory, Equipment |-> dbEquipment,
     Option |-> dbOption]

\* what one query does to the stored rows
ApplyQuery(db, q) ==
    CASE q.Query = "UpdateItemAmount" ->
           [db EXCEPT !.Item =
              { IF row.ItemUID = q.ItemUID
                THEN [row EXCEPT !.Amount = q.Arg] ELSE row : row \in @ }]
      [] q.Query = "DeleteItem" ->
           [db EXCEPT !.Item = { row \in @ : row.ItemUID # q.ItemUID }]
      [] q.Query = "InsertInventory" ->
           [db EXCEPT !.Inventory = @ \cup {q.ItemUID}]
      [] q.Query = "DeleteInventory" ->
           [db EXCEPT !.Inventory = @ \ {q.ItemUID}]
      [] q.Query = "DeleteEquipment" ->
           [db EXCEPT !.Equipment = @ \ {q.ItemUID}]
      [] q.Query = "InsertItemOption" ->
           [db EXCEPT !.Option = @ \cup {[ItemUID |-> q.ItemUID, OptionID |-> q.Arg]}]

RECURSIVE ApplyQueries(_, _, _)
\* the first n queries of a task applied in order
ApplyQueries(db, queries, n) ==
    IF n = 0 THEN db
    ELSE ApplyQuery(ApplyQueries(db, queries, n - 1), queries[n])

\* "Sqlite::QueryGameDB(SqlGameQuery::InsertItem, AccountID, ItemID, Amount)":
\* the item row is written at once, outside the task
InsertItemRow(rows, uid, id, amount) ==
    rows \cup {[ItemUID |-> uid, ItemID |-> id, Amount |-> amount]}

\* OnUpdateItemAmount: the new amount of the item and the query it queues
OnUpdateItemAmount(InNetItem, InUpdateAmount) ==
    LET ItemData == FindItemData(InNetItem.ItemID)
        PreAmount == InNetItem.Amount
        Amount == Clamp(PreAmount + InUpdateAmount, 0, ItemData.MaxStackAmount)
    IN  [Amount |-> Amount,
         Queries |-> IF Amount > 0
                     THEN <<Query("UpdateItemAmount", InNetItem.ItemUID, Amount)>>
                     ELSE <<Query("DeleteItem", InNetItem.ItemUID, 0)>>]

\* the sub options UEquipmentSubOptionDataTable::BuildOptions can give an item
SubOptions == {"attack", "defense"}

\* BuildOptions(NetItem, InTask) without fixed options: the queries it queues
BuildOptions(InNetItem, option) ==
    IF FindItemData(InNetItem.ItemID).ItemType # "Equip" THEN <<>>
    ELSE <<Query("InsertItemOption", InNetItem.ItemUID, option)>>

MaxRows == 3            \* the item rows one behaviour inserts at most
MaxAddAmount == 2       \* the largest InAddAmount / InRemoveAmount
MaxTask == 1            \* no call is made on a task that holds this many queries
MaxTasks == 2           \* the tasks one behaviour opens at most

InvItemIDs == {"itemA", "sword"}

\* the values of InAddAmount: 1..MaxAddAmount, and one more than a full stack
AddAmounts == (1..MaxAddAmount) \cup {ItemDataTable["itemA"].MaxStackAmount + 1}

\* the stored inventories a behaviour starts from: empty, or 2 of itemA and
\* an equipped sword
InvStartRows ==
    { [Item |-> {}, Inventory |-> {}, Equipment |-> {}, Option |-> {}],
      [Item |-> {[ItemUID |-> 1, ItemID |-> "itemA", Amount |-> 2],
                 [ItemUID |-> 2, ItemID |-> "sword", Amount |-> 1]},
       Inventory |-> {1, 2}, Equipment |-> {2},
       Option |-> {[ItemUID |-> 2, OptionID |-> "attack"]}] }

\* the UNetItems of the user data for the stored rows
UserItemsOf(db) ==
    { row \in db.Item : row.ItemUID \in db.Inventory }

InvInit ==
    /\ \E db \in InvStartRows :
         /\ dbItem = db.Item
         /\ dbInventory = db.Inventory
         /\ dbEquipment = db.Equipment
         /\ dbOption = db.Option
         /\ dbAtBegin = db
         /\ userItems = UserItemsOf(db)
         /\ lastRowId = Cardinality(db.Item)
    /\ Task = <<>>
    /\ taskState = "open"
    /\ taskNo = 1
    /\ lastCall = [call |-> "none", ok |-> TRUE]

InvIdle ==
    /\ dbItem = {}
    /\ dbInventory = {}
    /\ dbEquipment = {}
    /\ dbOption = {}
    /\ dbAtBegin = [Item |-> {}, Inventory |-> {}, Equipment |-> {}, Option |-> {}]
    /\ userItems = {}
    /\ lastRowId = 0
    /\ Task = <<>>
    /\ taskState = "open"
    /\ taskNo = 1
    /\ lastCall = [call |-> "none", ok |-> TRUE]

\* DuplicateNetItemByID(InItemID): the items of the user data with that id
ItemsByID(InItemID) == { item \in userItems : item.ItemID = InItemID }

\* AddInventoryItem for a stackable item the user data holds: the amount of
\* the duplicate is updated through the task
AddInventoryItemStack ==
    /\ taskState = "open" /\ Len(Task) < MaxTask
    /\ \E InItemID \in InvItemIDs, InAddAmount \in AddAmounts :
         /\ FindItemData(InItemID).MaxStackAmount > 1
         /\ \E NetItem \in ItemsByID(InItemID) :
              LET u == OnUpdateItemAmount(NetItem, InAddAmount)
              IN  /\ Task' = Task \o u.Queries
                  /\ lastCall' = [call |-> "AddInventoryItem", ok |-> TRUE,
                                  ItemUID |-> NetItem.ItemUID,
                                  Amount |-> u.Amount]
    /\ UNCHANGED <<dbItem, dbInventory, dbEquipment, dbOption, lastRowId,
                   userItems, taskState, taskNo, dbAtBegin, notInv>>

\* AddInventoryItem otherwise: a new item whose row is inserted at once, its
\* inventory row and options through the task
AddInventoryItemNew ==
    /\ taskState = "open" /\ Len(Task) < MaxTask
    /\ lastRowId < MaxRows
    /\ \E InItemID \in InvItemIDs, InAddAmount \in AddAmounts,
          option \in SubOptions :
         /\ ~(FindItemData(InItemID).MaxStackAmount > 1 /\ ItemsByID(InItemID) # {})
         /\ LET NetItem == [ItemUID |-> lastRowId + 1, ItemID |-> InItemID,
                            Amount |-> InAddAmount]
            IN  /\ dbItem' = InsertItemRow(dbItem, NetItem.ItemUID,
                                           NetItem.ItemID, NetItem.Amount)
                /\ lastRowId' = lastRowId + 1
                /\ Task' = Task \o <<Query("InsertInventory", NetItem.ItemUID, 0)>>
                                \o BuildOptions(NetItem, option)
                /\ lastCall' = [call |-> "AddInventoryItem", ok |-> TRUE,
                                ItemUID |-> NetItem.ItemUID,
                                Amount |-> NetItem.Amount]
    /\ UNCHANGED <<dbInventory, dbEquipment, dbOption, userItems, taskState,
                   taskNo, dbAtBegin, notInv>>

\* UUserData_Equipment::GetEquipmentBy: is a piece of equipment of this
\* ItemID equipped (the lookup is by ItemID, not by ItemUID)
GetEquipmentBy(ItemID) ==
    \E item \in userItems :
      item.ItemID = ItemID /\ item.ItemUID \in dbEquipment

RemoveQueries_KeepsEquipment(InNetItem, Amount, equipped) ==
    IF Amount <= 0
    THEN <<Query("DeleteInventory", InNetItem.ItemUID, 0)>>
    ELSE <<>>

\* what RemoveInventoryItem queues after the amount update
RemoveQueries(InNetItem, Amount, equipped) ==
    IF Amount <= 0
    THEN <<Query("DeleteInventory", InNetItem.ItemUID, 0)>>
           \o (IF equipped
               THEN <<Query("DeleteEquipment", InNetItem.ItemUID, 0)>>
               ELSE <<>>)
    ELSE <<>>

\* RemoveInventoryItem on an item of the user data (or on a null item)
RemoveInventoryItem ==
    /\ taskState = "open" /\ Len(Task) < MaxTask
    /\ \E InNetItem \in userItems \cup {NullRow},
          InRemoveAmount \in (-1)..MaxAddAmount :
         IF InNetItem = NullRow \/ InRemoveAmount < 0
         THEN /\ lastCall' = [call |-> "RemoveInventoryItem", ok |-> FALSE]
              /\ UNCHANGED <<userItems, Task>>
         ELSE IF InNetItem.Amount - InRemoveAmount < 0
         THEN /\ lastCall' = [call |-> "RemoveInventoryItem", ok |-> FALSE]
              /\ UNCHANGED <<userItems, Task>>
         ELSE LET u == OnUpdateItemAmount(InNetItem, InRemoveAmount * (-1))
              IN  /\ userItems' = (userItems \ {InNetItem})
                                    \cup {[InNetItem EXCEPT !.Amount = u.Amount]}
                  /\ Task' = Task \o u.Queries
                       \o RemoveQueries(InNetItem, u.Amount,
                                        GetEquipmentBy(InNetItem.ItemID))
                  /\ lastCall' = [call |-> "RemoveInventoryItem", ok |-> TRUE,
                                  ItemUID |-> InNetItem.ItemUID,
                                  Amount |-> u.Amount,
                                  InRemoveAmount |-> InRemoveAmount]
    /\ UNCHANGED <<dbItem, dbInventory, dbEquipment, dbOption, lastRowId,
                   taskState, taskNo, dbAtBegin, notInv>>

\* the task commits: all its queries take effect as one unit
CommitTask ==
    /\ taskState = "open"
    /\ Task # <<>>
    /\ LET db == ApplyQueries(DbRows, Task, Len(Task))
       IN  /\ dbItem' = db.Item
           /\ dbInventory' = db.Inventory
           /\ dbEquipment' = db.Equipment
           /\ dbOption' = db.Option
           /\ userItems' = UserItemsOf(db)
    /\ taskState' = "committed"
    /\ lastCall' = [call |-> "Commit", ok |-> TRUE]
    /\ UNCHANGED <<lastRowId, Task, taskNo, dbAtBegin, notInv>>

\* the commit fails: none of the queued queries takes effect
FailTask ==
    /\ taskState = "open"
    /\ Task # <<>>
    /\ taskState' = "failed"
    /\ lastCall' = [call |-> "Commit", ok |-> FALSE]
    /\ UNCHANGED <<dbItem, dbInventory, dbEquipment, dbOption, lastRowId,
                   userItems, Task, taskNo, dbAtBegin, notInv>>

\* a new task is opened for the next batch
OpenTask ==
    /\ taskState \in {"committed", "failed"} /\ taskNo < MaxTasks
    /\ Task' = <<>>
    /\ taskState' = "open"
    /\ taskNo' = taskNo + 1
    /\ dbAtBegin' = DbRows
    /\ userItems' = UserItemsOf(DbRows)
    /\ lastCall' = [call |-> "none", ok |-> TRUE]
    /\ UNCHANGED <<dbItem, dbInventory, dbEquipment, dbOption, lastRowId, notInv>>

InvNext ==
    \/ AddInventoryItemStack
    \/ AddInventoryItemNew
    \/ RemoveInventoryItem
    \/ CommitTask
    \/ FailTask
    \/ OpenTask

(***************************************************************************)
(* Two callers of OnPostGive_Gacha on the same pool (SpecPair). The        *)
(* counters NormalPickupCounter and SpecialPickupCounter are members of    *)
(* the one UServerRewardSystem; PickupCount and Index are locals of each   *)
(* call.                                                                   *)
(***************************************************************************)
MaxRequests == 2        \* the callers

Callers == 1..MaxRequests

\* mutant of GetGachaCounter: the members stay at the 0 they were set to
GetGachaCounter_Zeroed(saved) == [Normal |-> 0, Special |-> 0]

\* "NormalPickupCounter = 0; SpecialPickupCounter = 0;
\* UContentsAlarmSave::GetGachaCounter(TypeRowName, Normal, Special)"
GetGachaCounter(saved) == saved

\* the counters after one iteration of the for loop that began with the
\* counters at n and s, the roll drawing RandomNumber
CountersAfterDraw(campaign, data, n, s, RandomNumber) ==
    IF SpecialPityDue(campaign, s + 1)
    THEN [Normal |-> 0, Special |-> 0]
    ELSE IF NormalPityDue(campaign, n + 1)
    THEN [Normal |-> 0, Special |-> s + 1]
    ELSE CountersAfterRoll(campaign,
                           RollRandomReward(data, RandomNumber, 0).OutPickupGroup,
                           n + 1, s + 1)

\* the calls of the hook run one at a time: a call is entered only when no
\* other call is between its load and its save
Serialized(r) == \A q \in Callers \ {r} : pairRequest[q].pc = "wait"

Waiting == [pc |-> "wait", PickupCount |-> 0, Index |-> 0, Served |-> FALSE]

PairInit ==
    /\ RewardData \in {PoolFull, PoolNoTop}
    /\ CampaignData \in Campaigns \ {NullRow}
    /\ savedCounter = [Normal |-> 0, Special |-> 0]
    /\ NormalPickupCounter = 0
    /\ SpecialPickupCounter = 0
    /\ RewardHandlers = <<>>
    /\ PickupCount = 0
    /\ Index = 0
    /\ gachaPc = "idle"
    /\ lastDraw = NoDraw
    /\ lastRequest = "none"
    /\ preSaved = [Normal |-> 0, Special |-> 0]
    /\ sinceSpecial = 0
    /\ sinceNormal = 0
    /\ pairRequest = [r \in Callers |-> Waiting]
    /\ pairProgress = [Normal |-> 0, Special |-> 0]

PairIdle ==
    /\ pairRequest = [r \in Callers |-> Waiting]
    /\ pairProgress = [Normal |-> 0, Special |-> 0]

\* caller r enters OnPostGive_Gacha: the load of the counters and the guard
\* on PickupCount (lines 140-149)
PairBegin ==
    \E r \in Callers, Amount \in 1..MaxPickupCount :
      /\ pairRequest[r].pc = "wait"
      /\ Serialized(r)
      /\ NormalPickupCounter' = GetGachaCounter(savedCounter).Normal
      /\ SpecialPickupCounter' = GetGachaCounter(savedCounter).Special
      /\ pairRequest' = [pairRequest EXCEPT ![r] =
                           [pc |-> "draw", PickupCount |-> Amount, Index |-> 0,
                            Served |-> @.Served]]
      /\ UNCHANGED <<RewardData, CampaignData, savedCounter, RewardHandlers,
                     PickupCount, Index, gachaPc, lastDraw, lastRequest,
                     preSaved, sinceSpecial, sinceNormal, pairProgress, notPair>>

\* one iteration of the for loop of caller r (lines 159-201)
PairDraw ==
    \E r \in Callers, RandomNumber \in 1..RewardData.TotalGachaWeight :
      /\ pairRequest[r].pc = "draw"
      /\ pairRequest[r].Index < pairRequest[r].PickupCount
      /\ LET c == CountersAfterDraw(CampaignData, RewardData,
                                    NormalPickupCounter, SpecialPickupCounter,
                                    RandomNumber)
             reset == [Normal |-> c.Normal = 0, Special |-> c.Special = 0]
         IN  /\ NormalPickupCounter' = c.Normal
             /\ SpecialPickupCounter' = c.Special
             /\ pairProgress' =
                  [Normal |-> IF reset.Normal THEN 0
                              ELSE pairProgress.Normal + 1,
                   Special |-> IF reset.Special THEN 0
                               ELSE pairProgress.Special + 1]
      /\ pairRequest' = [pairRequest EXCEPT ![r].Index = @ + 1]
      /\ UNCHANGED <<RewardData, CampaignData, savedCounter, RewardHandlers,
                     PickupCount, Index, gachaPc, lastDraw, lastRequest,
                     preSaved, sinceSpecial, sinceNormal, notPair>>

\* caller r leaves the loop: GiveRewards and SetGachaCounter (lines 203-215)
PairEnd ==
    \E r \in Callers :
      /\ pairRequest[r].pc = "draw"
      /\ pairRequest[r].Index = pairRequest[r].PickupCount
      /\ savedCounter' = [Normal |-> NormalPickupCounter,
                          Special |-> SpecialPickupCounter]
      /\ pairRequest' = [pairRequest EXCEPT ![r] =
                           [pc |-> "wait", PickupCount |-> 0, Index |-> 0,
                            Served |-> TRUE]]
      /\ UNCHANGED <<RewardData, CampaignData, NormalPickupCounter,
                     SpecialPickupCounter, RewardHandlers, PickupCount, Index,
                     gachaPc, lastDraw, lastRequest, preSaved, sinceSpecial,
                     sinceNormal, pairProgress, notPair>>

PairNext ==
    \/ PairBegin
    \/ PairDraw
    \/ PairEnd

(***************************************************************************)
(* BuildRewardData (SpecBuild): the recursive expansion of a URewardData   *)
(* row, one activation per stack frame.                                    *)
(***************************************************************************)
MaxDepth == 4       \* the activations the stack holds before it is exhausted

\* an FRewardHandler of type RewardData naming the row `name`
Ref(name, amount) == Handler("RewardData", name, amount, "None")

Atom(name) == Handler("Item", name, 1, "None")

\* a URewardRandomData
RandomData(weight, reward) == [Weight |-> weight, Reward |-> reward]

\* a URewardData row: Statics, Randoms and TotalWeight
RewardRow(statics, randoms, total) ==
    [Statics |-> statics, Randoms |-> randoms, TotalWeight |-> total]

\* the rows of URewardDataTable: two rows of atomic entries (with and
\* without Randoms), a row that refers to them with amounts 2, 1, 0 and -1,
\* rows that refer to each other or to themselves, and a row that refers to
\* a name the table does not hold
RewardDataTable ==
    [Pack  |-> RewardRow(<<Atom("X"), Atom("Y")>>,
                         <<RandomData(1, Atom("P")), RandomData(2, Atom("Q"))>>, 3),
     Plain |-> RewardRow(<<Atom("X"), Atom("Y")>>, <<>>, 0),
     Outer |-> RewardRow(<<Ref("Pack", 2), Ref("Plain", 0), Ref("Plain", -1),
                           Atom("X")>>,
                         <<RandomData(1, Ref("Pack", 1)), RandomData(1, Atom("P"))>>, 2),
     LoopA |-> RewardRow(<<Ref("LoopB", 1)>>, <<>>, 0),
     LoopB |-> RewardRow(<<Atom("Y"), Ref("LoopA", 1)>>, <<>>, 0),
     Self  |-> RewardRow(<<Atom("X")>>, <<RandomData(1, Ref("Self", 1))>>, 1),
     Dangling |-> RewardRow(<<Ref("Missing", 2), Atom("X")>>, <<>>, 0)]

\* URewardDataTable::FindRow(name)
FindRewardData(name) ==
    IF name \in DOMAIN RewardDataTable THEN RewardDataTable[name] ELSE NullRow

\* the rows a build starts from
BuildRoots == DOMAIN RewardDataTable \cup {"Missing"}

\* the lambda AddReward emplaces "RewardHandler", a name that is not its
\* parameter Handler: the objects that name can denote
LambdaRewardHandlers == {Atom("X"), NoneReward}

\* the activation of BuildRewardData(FindRow(name), ...): at "statics" with
\* the i-th static entry next, at "random" with the drawn entry sel, or at
\* "return"; k counts the iterations of the for loop of AddReward
NewFrame(id, name) ==
    [Id |-> id, Data |-> name,
     pc |-> IF FindRewardData(name) = NullRow THEN "return" ELSE "statics",
     i |-> 1, k |-> 0, sel |-> 0]

Top == buildStack[Len(buildStack)]

\* the handler the innermost activation is passing to AddReward
AtHandler(f) ==
    \/ f.pc = "statics" /\ f.i <= Len(FindRewardData(f.Data).Statics)
    \/ f.pc = "random"

CurHandler(f) ==
    IF f.pc = "statics" THEN FindRewardData(f.Data).Statics[f.i]
    ELSE FindRewardData(f.Data).Randoms[f.sel].Reward

\* the activation after AddReward returned
Advance(f) ==
    IF f.pc = "statics" THEN [f EXCEPT !.i = @ + 1, !.k = 0]
    ELSE [f EXCEPT !.pc = "return"]

ReplaceTop(f) == [buildStack EXCEPT ![Len(buildStack)] = f]

\* mutant of LoopRuns: a reference is expanded once whatever its Amount
LoopRuns_Once(Handler_, k) == k < 1

\* "for (int32 i = 0; i < Handler.Amount; ++i)"
LoopRuns(Handler_, k) == k < Handler_.Amount

BuildInit ==
    /\ buildStack = <<>>
    /\ InRewardHandlers = <<>>
    /\ RewardHandler \in LambdaRewardHandlers
    /\ buildCalls = <<>>
    /\ buildDraws = <<>>
    /\ buildState = "idle"

BuildIdle ==
    /\ buildStack = <<>>
    /\ InRewardHandlers = <<>>
    /\ RewardHandler = NoneReward
    /\ buildCalls = <<>>
    /\ buildDraws = <<>>
    /\ buildState = "idle"

\* the outermost call BuildRewardData(FindRow(root), InRewardHandlers)
BuildBegin ==
    /\ buildState = "idle"
    /\ \E root \in BuildRoots :
         /\ buildStack' = <<NewFrame(1, root)>>
         /\ buildCalls' = <<[Id |-> 1, Data |-> root, Parent |-> 0,
                             At |-> <<"root", 0>>]>>
    /\ buildState' = "running"
    /\ UNCHANGED <<InRewardHandlers, RewardHandler, buildDraws, notBuild>>

\* AddReward on a handler that is not of type RewardData (line 249)
BuildEmplace ==
    /\ buildState = "running"
    /\ AtHandler(Top)
    /\ CurHandler(Top).RewardType # "RewardData"
    /\ InRewardHandlers' = Append(InRewardHandlers, RewardHandler)
    /\ buildStack' = ReplaceTop(Advance(Top))
    /\ UNCHANGED <<RewardHandler, buildCalls, buildDraws, buildState, notBuild>>

\* AddReward on a handler of type RewardData: one iteration of its for loop,
\* the recursive call (lines 240-245)
BuildCall ==
    /\ buildState = "running"
    /\ AtHandler(Top)
    /\ CurHandler(Top).RewardType = "RewardData"
    /\ LoopRuns(CurHandler(Top), Top.k)
    /\ Len(buildStack) < MaxDepth
    /\ LET id == Len(buildCalls) + 1
           name == CurHandler(Top).TypeRowName
       IN  /\ buildStack' = Append(ReplaceTop([Top EXCEPT !.k = @ + 1]),
                                   NewFrame(id, name))
           /\ buildCalls' = Append(buildCalls,
                                   [Id |-> id, Data |-> name, Parent |-> Top.Id,
                                    At |-> <<Top.pc, IF Top.pc = "statics"
                                                     THEN Top.i ELSE Top.sel>>])
    /\ UNCHANGED <<InRewardHandlers, RewardHandler, buildDraws, buildState,
                   notBuild>>

\* the recursive call for which the stack has no room left
BuildOverflow ==
    /\ buildState = "running"
    /\ AtHandler(Top)
    /\ CurHandler(Top).RewardType = "RewardData"
    /\ LoopRuns(CurHandler(Top), Top.k)
    /\ Len(buildStack) = MaxDepth
    /\ buildState' = "overflow"
    /\ UNCHANGED <<buildStack, InRewardHandlers, RewardHandler, buildCalls,
                   buildDraws, notBuild>>

\* AddReward on a handler of type RewardData: its for loop is over
BuildLoopEnd ==
    /\ buildState = "running"
    /\ AtHandler(Top)
    /\ CurHandler(Top).RewardType = "RewardData"
    /\ ~LoopRuns(CurHandler(Top), Top.k)
    /\ buildStack' = ReplaceTop(Advance(Top))
    /\ UNCHANGED <<InRewardHandlers, RewardHandler, buildCalls, buildDraws,
                   buildState, notBuild>>

\* the statics are done and Randoms is not empty: RandRange(1, TotalWeight)
\* and the walk to the first entry whose cumulative weight reaches it
BuildDraw ==
    /\ buildState = "running"
    /\ Top.pc = "statics" /\ ~AtHandler(Top)
    /\ FindRewardData(Top.Data).Randoms # <<>>
    /\ \E RandomNumber \in 1..FindRewardData(Top.Data).TotalWeight :
         LET hit == RollWalk(FindRewardData(Top.Data).Randoms, 1, 0, RandomNumber)
         IN  /\ buildStack' = ReplaceTop(IF hit > 0
                                         THEN [Top EXCEPT !.pc = "random", !.sel = hit]
                                         ELSE [Top EXCEPT !.pc = "return"])
             /\ buildDraws' = Append(buildDraws,
                                     [Call |-> Top.Id, RandomNumber |-> RandomNumber,
                                      Hit |-> hit])
    /\ UNCHANGED <<InRewardHandlers, RewardHandler, buildCalls, buildState,
                   notBuild>>

\* an activation returns: its row was null, or its statics are done and it
\* has no Randoms, or its drawn entry is done
BuildReturn ==
    /\ buildState = "running"
    /\ \/ Top.pc = "return"
       \/ /\ Top.pc = "statics" /\ ~AtHandler(Top)
          /\ FindRewardData(Top.Data).Randoms = <<>>
    /\ buildStack' = SubSeq(buildStack, 1, Len(buildStack) - 1)
    /\ buildState' = IF Len(buildStack) = 1 THEN "done" ELSE "running"
    /\ UNCHANGED <<InRewardHandlers, RewardHandler, buildCalls, buildDraws,
                   notBuild>>

BuildNext ==
    \/ BuildBegin
    \/ BuildEmplace
    \/ BuildCall
    \/ BuildOverflow
    \/ BuildLoopEnd
    \/ BuildDraw
    \/ BuildReturn

(***************************************************************************)
(* UVideoPlayer: PlayVideos, PlayVideo, the handlers of the media events   *)
(* and the sequence over VideoQueue                                        *)
(***************************************************************************)
INDEX_NONE == -1

\* a media source as FindOrAddMediaSource caches it, by GroupID and kind
MediaSourceOf(GroupID, bIsLoop) == [GroupID |-> GroupID, bIsLoop |-> bIsLoop]

\* a media source that is not valid
NullSource == MediaSourceOf("NAME_None", FALSE)

\* FVideoPlayHandler
VideoPlayHandler(source, loop, group) ==
    [MediaSource |-> source, bLoop |-> loop, GroupID |-> group]

\* the two handlers ConvertToHandlers makes of one resource
PrologueHandler(GroupID) ==
    VideoPlayHandler(MediaSourceOf(GroupID, FALSE), FALSE, GroupID)

LoopHandler(GroupID) ==
    VideoPlayHandler(MediaSourceOf(GroupID, TRUE), TRUE, GroupID)

\* a default-constructed FVideoPlayHandler
NoVideoHandler == VideoPlayHandler(NullSource, FALSE, "NAME_None")

\* TArray::IsValidIndex and operator[], with indexes from 0
IsValidIndex(queue, i) == i >= 0 /\ i < Len(queue)

At(queue, i) == queue[i + 1]

\* mutant of NextInSequence: the loop video of the same group is passed over
NextInSequence_PassesLoop(queue, i) ==
    LET later == { j \in (i + 1)..(Len(queue) - 1) : ~At(queue, j).bLoop }
    IN  IF later = {} THEN INDEX_NONE
        ELSE CHOOSE j \in later : \A k \in later : j <= k

\* PlayNextInSequence, the index it moves to from the valid index i:
\* the loop video of the same group at i + 1 when the video at i is no loop,
\* else the first later video that is no loop, else INDEX_NONE (none)
NextInSequence(queue, i) ==
    IF /\ ~At(queue, i).bLoop
       /\ IsValidIndex(queue, i + 1)
       /\ At(queue, i + 1).GroupID = At(queue, i).GroupID
       /\ At(queue, i + 1).bLoop
    THEN i + 1
    ELSE LET later == { j \in (i + 1)..(Len(queue) - 1) : ~At(queue, j).bLoop }
         IN  IF later = {} THEN INDEX_NONE
             ELSE CHOOSE j \in later : \A k \in later : j <= k

\* what PlayVideo returns, media being the state of the media player at the
\* call and bSucceed what OpenSource returns
PlayVideoReturns(InVideoPlayHandler, media, bSucceed) ==
    /\ InVideoPlayHandler.MediaSource # NullSource
    /\ media # "playing"
    /\ bSucceed

\* PlayVideo: what it does to the player, the UI and the input block
PlayVideo(InVideoPlayHandler, media, bSucceed) ==
    IF InVideoPlayHandler.MediaSource = NullSource \/ media = "playing"
    THEN /\ mediaState' = media
         /\ UNCHANGED <<MediaHandler, uiOpen, bOpenVideo, bLooping, BlockHandler>>
    ELSE /\ MediaHandler' = InVideoPlayHandler
         /\ bLooping' = InVideoPlayHandler.bLoop
         /\ IF bSucceed
            THEN /\ mediaState' = "opening"
                 /\ bOpenVideo' = TRUE
                 /\ uiOpen' = TRUE
                 /\ BlockHandler' = TRUE
            ELSE /\ mediaState' = "closed"
                 /\ bOpenVideo' = FALSE
                 /\ uiOpen' = FALSE
                 /\ UNCHANGED BlockHandler

\* OnFinishedAllVideos: the clean-up, with the OnAllVideosEnd broadcast
OnFinishedAllVideos ==
    /\ bVideoAudioFocusActive' = FALSE
    /\ mediaState' = "closed"
    /\ VideoQueue' = <<>>
    /\ uiOpen' = FALSE
    /\ BlockHandler' = FALSE
    /\ UNCHANGED <<CurrentVideoIndex, MaxVideoIndex, MediaHandler, bOpenVideo,
                   bLooping>>

\* what a call or a handler has done
VideoCall(call, did, real, early) ==
    [call |-> call, did |-> did, real |-> real, early |-> early]

\* PlayNextInSequence, media being the state of the media player at the call
PlayNextInSequence(media, bSucceed, real, early) ==
    IF ~IsValidIndex(VideoQueue, CurrentVideoIndex)
    THEN /\ OnFinishedAllVideos
         /\ lastVideoCall' = VideoCall("OnMediaPlaybackEnd", "finished", real, early)
    ELSE LET NextIndex == NextInSequence(VideoQueue, CurrentVideoIndex)
         IN  IF NextIndex = INDEX_NONE
             THEN /\ OnFinishedAllVideos
                  /\ lastVideoCall' =
                       VideoCall("OnMediaPlaybackEnd", "finished", real, early)
             ELSE /\ CurrentVideoIndex' = NextIndex
                  /\ PlayVideo(At(VideoQueue, NextIndex), media, bSucceed)
                  /\ lastVideoCall' =
                       VideoCall("OnMediaPlaybackEnd",
                                 IF PlayVideoReturns(At(VideoQueue, NextIndex),
                                                     media, bSucceed)
                                 THEN "started" ELSE "notstarted",
                                 real, early)
                  /\ UNCHANGED <<VideoQueue, MaxVideoIndex,
                                 bVideoAudioFocusActive>>

(***************************************************************************)
(* SpecVideo: queues of up to MaxQueue handlers, the media player opening, *)
(* failing, playing and reaching its end                                   *)
(***************************************************************************)
MaxQueue == 3

VideoHandlers ==
    { PrologueHandler("g1"), LoopHandler("g1"), PrologueHandler("g2"),
      VideoPlayHandler(NullSource, FALSE, "g2") }

VideoQueues == UNION { [1..n -> VideoHandlers] : n \in 0..MaxQueue }

\* the queues of a PlayVideos call made while a video is opening or playing
InterruptingQueues == { <<>>, <<PrologueHandler("g2")>> }

VideoInit ==
    /\ VideoQueue = <<>>
    /\ CurrentVideoIndex = INDEX_NONE
    /\ MaxVideoIndex = INDEX_NONE
    /\ MediaHandler = NoVideoHandler
    /\ bOpenVideo = FALSE
    /\ BlockHandler = FALSE
    /\ bVideoAudioFocusActive = FALSE
    /\ uiOpen = FALSE
    /\ mediaState = "closed"
    /\ bLooping = FALSE
    /\ lastVideoCall = VideoCall("none", "none", FALSE, FALSE)

VideoIdle == VideoInit

\* PlayVideos(InVideoQueue)
PlayVideos ==
    /\ \E InVideoQueue \in (IF mediaState \in {"opening", "playing"}
                           THEN InterruptingQueues ELSE VideoQueues),
          bSucceed \in BOOLEAN :
         IF InVideoQueue = <<>>
         THEN /\ VideoQueue' = <<>>
              /\ lastVideoCall' = VideoCall("PlayVideos", "refused", FALSE, FALSE)
              /\ UNCHANGED <<CurrentVideoIndex, MaxVideoIndex, MediaHandler,
                             bOpenVideo, BlockHandler, uiOpen, mediaState,
                             bLooping>>
         ELSE /\ VideoQueue' = InVideoQueue
              /\ CurrentVideoIndex' = 0
              /\ MaxVideoIndex' = Len(InVideoQueue) - 1
              /\ PlayVideo(At(InVideoQueue, 0), mediaState, bSucceed)
              /\ lastVideoCall' =
                   VideoCall("PlayVideos",
                             IF PlayVideoReturns(At(InVideoQueue, 0), mediaState,
                                                 bSucceed)
                             THEN "started" ELSE "refused",
                             FALSE, FALSE)
    /\ UNCHANGED <<bVideoAudioFocusActive, notVideo>>

\* the media player has opened the source: OnMediaOpened, played being what
\* MediaPlayer->Play() returns
OnMediaOpened ==
    /\ mediaState = "opening"
    /\ \E played \in BOOLEAN :
         IF ~played
         THEN /\ OnFinishedAllVideos
              /\ lastVideoCall' = VideoCall("OnMediaOpened", "finished", FALSE, FALSE)
         ELSE /\ mediaState' = "playing"
              /\ bVideoAudioFocusActive' = TRUE
              /\ bOpenVideo' = FALSE
              /\ lastVideoCall' = VideoCall("OnMediaOpened", "opened", FALSE, FALSE)
              /\ UNCHANGED <<VideoQueue, CurrentVideoIndex, MaxVideoIndex,
                             MediaHandler, BlockHandler, uiOpen, bLooping>>
    /\ UNCHANGED notVideo

\* the media player could not open the source: OnMediaOpenFailed
OnMediaOpenFailed ==
    /\ mediaState = "opening"
    /\ mediaState' = "failed"
    /\ bVideoAudioFocusActive' = FALSE
    /\ uiOpen' = FALSE
    /\ lastVideoCall' = VideoCall("OnMediaOpenFailed", "failed", FALSE, FALSE)
    /\ UNCHANGED <<VideoQueue, CurrentVideoIndex, MaxVideoIndex, MediaHandler,
                   bOpenVideo, BlockHandler, bLooping, notVideo>>

\* an OnEndReached event and its handler OnMediaPlaybackEnd.  real: the
\* media playing has reached its end (it goes on when it loops, it stops
\* otherwise); not real: a false end event, during the opening or within the
\* first half second.  early: Elapsed < 0.5.
OnMediaPlaybackEnd ==
    /\ \E real \in BOOLEAN, early \in BOOLEAN, bSucceed \in BOOLEAN :
         /\ IF real THEN mediaState = "playing"
            ELSE \/ mediaState = "opening"
                 \/ mediaState = "playing" /\ early
         /\ LET media == IF real /\ ~bLooping THEN "stopped" ELSE mediaState
            IN  IF bOpenVideo \/ early
                THEN /\ mediaState' = media
                     /\ lastVideoCall' =
                          VideoCall("OnMediaPlaybackEnd", "ignored", real, early)
                     /\ UNCHANGED <<VideoQueue, CurrentVideoIndex, MaxVideoIndex,
                                    MediaHandler, bOpenVideo, BlockHandler,
                                    bVideoAudioFocusActive, uiOpen, bLooping>>
                ELSE IF ~IsValidIndex(VideoQueue, CurrentVideoIndex)
                THEN /\ OnFinishedAllVideos
                     /\ lastVideoCall' =
                          VideoCall("OnMediaPlaybackEnd", "finished", real, early)
                ELSE IF At(VideoQueue, CurrentVideoIndex).bLoop
                THEN /\ mediaState' = media
                     /\ lastVideoCall' =
                          VideoCall("OnMediaPlaybackEnd", "looping", real, early)
                     /\ UNCHANGED <<VideoQueue, CurrentVideoIndex, MaxVideoIndex,
                                    MediaHandler, bOpenVideo, BlockHandler,
                                    bVideoAudioFocusActive, uiOpen, bLooping>>
                ELSE PlayNextInSequence(media, bSucceed, real, early)
    /\ UNCHANGED notVideo

VideoNext ==
    \/ PlayVideos
    \/ OnMediaOpened
    \/ OnMediaOpenFailed
    \/ OnMediaPlaybackEnd

(***************************************************************************)
(* The specifications                                                      *)
(***************************************************************************)
SpecRollInit ==
    RollInit /\ GachaIdle /\ SimIdle
    /\ InvIdle /\ PairIdle /\ BuildIdle /\ VideoIdle

SpecRollNext == Roll

SpecRoll == SpecRollInit /\ [][SpecRollNext]_vars

SpecGachaInit ==
    GachaInit /\ RollIdle /\ SimIdle
    /\ InvIdle /\ PairIdle /\ BuildIdle /\ VideoIdle

SpecGachaNext == GachaNext

SpecGacha == SpecGachaInit /\ [][SpecGachaNext]_vars

SpecSimInit ==
    SimInit /\ RollIdle /\ GachaIdle
    /\ InvIdle /\ PairIdle /\ BuildIdle /\ VideoIdle

SpecSimNext == Simulate

SpecSim == SpecSimInit /\ [][SpecSimNext]_vars

SpecInvInit ==
    InvInit /\ RollIdle /\ GachaIdle
    /\ SimIdle /\ PairIdle /\ BuildIdle /\ VideoIdle

SpecInvNext == InvNext

SpecInv == SpecInvInit /\ [][SpecInvNext]_vars

SpecPairInit ==
    PairInit /\ RollIdle /\ SimIdle
    /\ InvIdle /\ BuildIdle /\ VideoIdle

SpecPairNext == PairNext

SpecPair == SpecPairInit /\ [][SpecPairNext]_vars

SpecBuildInit ==
    BuildInit /\ RollIdle /\ GachaIdle /\ SimIdle /\ InvIdle /\ PairIdle
    /\ VideoIdle

SpecBuildNext == BuildNext

SpecBuild == SpecBuildInit /\ [][SpecBuildNext]_vars

SpecVideoInit ==
    VideoInit /\ RollIdle /\ GachaIdle /\ SimIdle /\ InvIdle /\ PairIdle
    /\ BuildIdle

SpecVideoNext == VideoNext

SpecVideo == SpecVideoInit /\ [][SpecVideoNext]_vars

(***************************************************************************)
(* Claims about the weighted roll (SpecRoll)                               *)
(***************************************************************************)
\* the pool of the finished call keeps the data model's invariant
\* totalWeight = sum of the weights > 0
RolledSoundPool ==
    /\ rollDone
    /\ rollData.TotalGachaWeight > 0
    /\ rollData.TotalGachaWeight =
         SumWeights(rollData.GachaRandoms, Len(rollData.GachaRandoms))

\* row i is the first whose cumulative weight reaches d
FirstReaching(rows, i, d) ==
    /\ SumWeights(rows, i) >= d
    /\ \A j \in 1..(i - 1) : SumWeights(rows, j) < d

\* C4: for a pool whose totalWeight is the sum of its weights and > 0 and a
\* draw d in [1, totalWeight], the roll returns the first row in table order
\* whose cumulative weight is >= d, with that row's pickupGroup, never the
\* None reward; on {A:70, B:25, C:5}, 80 gives B, 100 gives C and 1 gives A.
C4_RollFirstReaching ==
    /\ RolledSoundPool =>
         /\ rollReward # NoneReward
         /\ \E i \in 1..Len(rollData.GachaRandoms) :
              /\ FirstReaching(rollData.GachaRandoms, i, rollNumber)
              /\ rollReward = rollData.GachaRandoms[i].Reward
              /\ rollGroup = rollData.GachaRandoms[i].PickupGroup
    /\ (rollDone /\ rollData = SamplePool) =>
         /\ rollNumber = 80 => rollReward.TypeRowName = "B"
         /\ rollNumber = 100 => rollReward.TypeRowName = "C"
         /\ rollNumber = 1 => rollReward.TypeRowName = "A"

\* the roll of 80 on the sample pool has returned B
C4_Witness ==
    /\ rollDone /\ rollData = SamplePool
    /\ rollNumber = 80 /\ rollReward.TypeRowName = "B" /\ rollGroup = 2

\* the rows of a table with a nonzero weight
NonZeroRows(rows) == { i \in 1..Len(rows) : rows[i].Weight # 0 }

FirstNonZero(rows) ==
    CHOOSE i \in NonZeroRows(rows) : \A j \in NonZeroRows(rows) : i <= j

LastNonZero(rows) ==
    CHOOSE i \in NonZeroRows(rows) : \A j \in NonZeroRows(rows) : j <= i

\* C5 as claimed: a draw of exactly W selects the last row of the table, a
\* draw of 1 the first row with a nonzero weight.
C5_Original ==
    RolledSoundPool =>
      /\ rollNumber = rollData.TotalGachaWeight =>
           rollReward = rollData.GachaRandoms[Len(rollData.GachaRandoms)].Reward
      /\ rollNumber = 1 =>
           rollReward = rollData.GachaRandoms[FirstNonZero(rollData.GachaRandoms)].Reward

\* C5 as amended: with weights >= 0, a draw of exactly W selects the last row
\* with a nonzero weight (the last row of the table when its weight is
\* positive), a draw of 1 the first row with a nonzero weight.
C5_DrawOfTotalAndOfOne ==
    RolledSoundPool =>
      /\ rollNumber = rollData.TotalGachaWeight =>
           rollReward = rollData.GachaRandoms[LastNonZero(rollData.GachaRandoms)].Reward
      /\ rollNumber = 1 =>
           rollReward = rollData.GachaRandoms[FirstNonZero(rollData.GachaRandoms)].Reward

\* a draw of W on a table that ends in a row of weight 0 has returned an
\* earlier row
C5_Witness ==
    /\ RolledSoundPool
    /\ rollNumber = rollData.TotalGachaWeight
    /\ rollData.GachaRandoms[Len(rollData.GachaRandoms)].Weight = 0
    /\ rollReward = rollData.GachaRandoms[LastNonZero(rollData.GachaRandoms)].Reward
    /\ LastNonZero(rollData.GachaRandoms) < Len(rollData.GachaRandoms)

(***************************************************************************)
(* Claims about the pity engine (SpecGacha)                                *)
(***************************************************************************)
SpecialPityEnabled ==
    /\ RewardData # NullRow /\ CampaignData # NullRow
    /\ CampaignData.SpecialPickupGroup > 0
    /\ CampaignData.SpecialTryCount >= 1

NormalPityEnabled ==
    /\ RewardData # NullRow /\ CampaignData # NullRow
    /\ CampaignData.NormalPickupGroup > 0

\* C2 as claimed: with special pity enabled and counters starting at 0,
\* every window of specialTryCount consecutive draws, over any number of
\* requests, holds a reward of tier >= specialPickupGroupThreshold: the run
\* of draws without one never reaches specialTryCount.
C2_Original ==
    SpecialPityEnabled => sinceSpecial < CampaignData.SpecialTryCount

\* C2 as amended: the same, for a pool that has at least one row of tier
\* >= specialPickupGroupThreshold.
C2_SpecialPityWindow ==
    (/\ SpecialPityEnabled
     /\ PickupCandidates(RewardData, CampaignData.SpecialPickupGroup) # <<>>)
    => sinceSpecial < CampaignData.SpecialTryCount

\* the special pity has fired on counters reloaded from an earlier request,
\* with normal pity enabled too, and has given a reward of the special tier
C2_Witness ==
    /\ SpecialPityEnabled /\ NormalPityEnabled
    /\ gachaPc = "draw" /\ lastDraw.path = "special"
    /\ lastDraw.s0 + 1 = CampaignData.SpecialTryCount
    /\ CampaignData.SpecialTryCount = MaxTryCount
    /\ preSaved.Special > 0
    /\ lastDraw.tier >= CampaignData.SpecialPickupGroup
    /\ sinceSpecial = 0

\* C3: with normal pity enabled and counters starting at 0, every window of
\* 10 consecutive draws holds a reward of tier >= normalPickupGroupThreshold:
\* the run of draws without one never reaches 10.  Stated for the pools that
\* have a row of that tier, where a guaranteed roll can give one.
C3_NormalPityWindow ==
    (/\ NormalPityEnabled
     /\ PickupCandidates(RewardData, CampaignData.NormalPickupGroup) # <<>>)
    => sinceNormal < NormalPityCount

\* C6: when a pity trigger fires and no row of the pool has a tier >= the
\* pity threshold, the draw is a normal draw: its reward is a row of the pool
\* given by the weighted roll (not the None reward), and the counters are
\* those a normal roll of that row's tier leaves.
C6_EmptyPityFallsBackToRoll ==
    (/\ gachaPc = "draw"
     /\ lastDraw.path \in {"special", "normal"}
     /\ lastDraw.empty)
    => /\ lastDraw.reward # NoneReward
       /\ \E i \in 1..Len(RewardData.GachaRandoms) :
            /\ lastDraw.reward = RewardData.GachaRandoms[i].Reward
            /\ [Normal |-> NormalPickupCounter, Special |-> SpecialPickupCounter]
                 = CountersAfterRoll(CampaignData,
                                     RewardData.GachaRandoms[i].PickupGroup,
                                     lastDraw.n0 + 1, lastDraw.s0 + 1)

\* C10: when the reward batch of a request is rejected, the counters of the
\* pool stored after the request equal those stored before it.
C10_RejectedKeepsCounters ==
    (gachaPc = "idle" /\ lastRequest = "rejected") => savedCounter = preSaved

(***************************************************************************)
(* Claims about SimulateRewards (SpecSim)                                  *)
(***************************************************************************)
\* the call has returned, capacity was enforced, and the inventory was full
\* on record with nothing pending
SimulatedWhenFull ==
    /\ simResult # "none"
    /\ bCheckInventory
    /\ InUpdatedItem = <<>>
    /\ slotCount = maxCapacity

\* a batch of one reward: one unit of a non-stackable item
GrantsOneNonStackable(batch) ==
    /\ Len(batch) = 1
    /\ batch[1].RewardType = "Item"
    /\ FindItemData(batch[1].TypeRowName) # NullRow
    /\ FindItemData(batch[1].TypeRowName).NonStackable
    /\ FindItemData(batch[1].TypeRowName).RequiresInventorySlot
    /\ batch[1].Amount = 1

\* a batch of one reward: +1 of a stackable item the player holds
GrantsOneHeldStackable(batch) ==
    /\ Len(batch) = 1
    /\ batch[1].RewardType = "Item"
    /\ FindItemData(batch[1].TypeRowName) # NullRow
    /\ ~FindItemData(batch[1].TypeRowName).NonStackable
    /\ batch[1].Amount = 1
    /\ userAmount[batch[1].TypeRowName] > 0

OccupiesSlots(Reward) ==
    /\ Reward.RewardType = "Item"
    /\ FindItemData(Reward.TypeRowName) # NullRow
    /\ FindItemData(Reward.TypeRowName).RequiresInventorySlot

\* the slot delta the simulation projects for a reward that occupies slots
ProjectedDelta(Reward) ==
    RewardSlotDelta(Reward, FindItemData(Reward.TypeRowName),
                    userAmount[Reward.TypeRowName])

\* the rewards a running total counts: every reward that occupies slots, or
\* only those whose acquisition source is None
Counted(Reward, anySource) ==
    OccupiesSlots(Reward) /\ (anySource \/ Reward.AcquireSource = "None")

RECURSIVE RunningTotal(_, _, _)
\* the baseline plus the projected deltas of the counted rewards among the
\* first k of the batch
RunningTotal(batch, k, anySource) ==
    IF k = 0 THEN slotCount + UpdatedSlots(InUpdatedItem, Len(InUpdatedItem))
    ELSE RunningTotal(batch, k - 1, anySource)
         + (IF Counted(batch[k], anySource) THEN ProjectedDelta(batch[k]) ELSE 0)

StackableNames ==
    { name \in DOMAIN ItemDataTable : ~ItemDataTable[name].NonStackable }

IsStackableGrant(Reward, name) ==
    Reward.RewardType = "Item" /\ Reward.TypeRowName = name

RECURSIVE SumAmounts(_, _, _)
\* the sum of the amounts of the grants of item `name` among the first n
SumAmounts(batch, n, name) ==
    IF n = 0 THEN 0
    ELSE SumAmounts(batch, n - 1, name)
         + (IF IsStackableGrant(batch[n], name) THEN batch[n].Amount ELSE 0)

\* the batch without the grants of the stackable items whose amounts sum to 0
WithoutCancelled(batch) ==
    SelectSeq(batch, LAMBDA Reward :
        ~(\E name \in StackableNames :
             /\ IsStackableGrant(Reward, name)
             /\ SumAmounts(batch, Len(batch), name) = 0))

\* C9: after the merge every stackable item key occurs at most once in the
\* adjusted batch, with the sum of its input amounts, and not at all when the
\* sum is 0; so a batch simulates as the batch without its cancelling grants
\* does ({itemA:+3, itemA:-3, itemB:+1} as {itemB:+1}): the same decision
\* and the same adjusted batch.
C9_MergeCancels ==
    simResult # "none" =>
      /\ \A name \in StackableNames :
           LET at == { k \in 1..Len(InRewards) : IsStackableGrant(InRewards[k], name) }
               total == SumAmounts(simInput, Len(simInput), name)
           IN  /\ Cardinality(at) <= 1
               /\ \A k \in at : InRewards[k].Amount = total
               /\ total = 0 => at = {}
      /\ LET other == SimulateRewards(WithoutCancelled(simInput), InUpdatedItem,
                                      bCheckInventory, SimEnv)
         IN  /\ other.ok = (simResult = "accepted")
             /\ other.InRewards = InRewards

\* C17: SimulateRewards has no effect on durable or shared state: whether it
\* accepts or rejects, the amounts held, the slot count, the maximum
\* capacity, the balance, the pending items, the pity counters, the stored
\* rows and the task's queue are as before; only the batch passed in is
\* rewritten, into the merged batch.
C17_SimulateFrame ==
    [][ simResult' # simResult =>
          /\ userAmount' = userAmount
          /\ slotCount' = slotCount
          /\ maxCapacity' = maxCapacity
          /\ balance' = balance
          /\ InUpdatedItem' = InUpdatedItem
          /\ savedCounter' = savedCounter
          /\ NormalPickupCounter' = NormalPickupCounter
          /\ SpecialPickupCounter' = SpecialPickupCounter
          /\ DbRows' = DbRows
          /\ userItems' = userItems
          /\ Task' = Task
          /\ InRewards' = MergeRewards(simInput) ]_vars

\* a call has returned false for capacity after it rewrote the batch
C17_Witness ==
    /\ simResult = "rejected" /\ simWhy = "CapacityExceeded"
    /\ InRewards # simInput
    /\ SlotAmount > slotCount

\* the k-th reward of the working batch passes URewardManager::Simulate
Admissible(k) == RewardManagerSimulate(InRewards[k], balance)

\* the rewards before the k-th pass it, and none of them took the running
\* total over the capacity
ReachedInOrder(k) ==
    \A j \in 1..(k - 1) :
      /\ Admissible(j)
      /\ (bCheckInventory /\ Counted(InRewards[j], FALSE)) =>
           RunningTotal(InRewards, j, FALSE) <= maxCapacity

\* C27: SimulateRewards calls the admissibility check for every reward of
\* the working batch, in batch order, also when bCheckInventory is false,
\* and rejects the batch at the first reward that fails it; with
\* bCheckInventory false it never rejects because of the slot capacity.
C27_AdmissibilityAlways ==
    simResult # "none" =>
      /\ simResult = "accepted" => \A k \in 1..Len(InRewards) : Admissible(k)
      /\ \A k \in 1..Len(InRewards) :
           (~Admissible(k) /\ ReachedInOrder(k)) =>
             /\ simResult = "rejected" /\ simWhy = "RewardRejected"
             /\ SlotAmount = (IF bCheckInventory
                              THEN RunningTotal(InRewards, k - 1, FALSE)
                              ELSE RunningTotal(InRewards, 0, FALSE))
      /\ ~bCheckInventory =>
           /\ simWhy # "CapacityExceeded"
           /\ simResult = "rejected" =>
                \E k \in 1..Len(InRewards) : ~Admissible(k)

\* without the inventory check a batch is rejected at its second reward,
\* which fails the admissibility check, while a reward of the batch would
\* take the slots over the capacity
C27_Witness ==
    /\ simResult = "rejected" /\ simWhy = "RewardRejected"
    /\ ~bCheckInventory
    /\ Len(InRewards) >= 2
    /\ Admissible(1) /\ ~Admissible(2)
    /\ \E k \in 1..Len(InRewards) :
         /\ Counted(InRewards[k], FALSE)
         /\ SlotAmount + ProjectedDelta(InRewards[k]) > maxCapacity

\* the slot delta of a change of `amount` to a stackable item held h times:
\* +1 when it takes the amount from zero to positive, -1 when it takes it
\* from positive to zero, 0 otherwise
CrossingDelta(h, amount) ==
    IF h = 0 /\ h + amount > 0 THEN 1
    ELSE IF h > 0 /\ h + amount <= 0 THEN -1
    ELSE 0

\* the slot delta of a pending item: its signed amount when it does not
\* stack, the crossing delta when it does, 0 when it occupies no slot
PendingDelta(It) ==
    IF It.ItemData = NullRow \/ ~It.ItemData.RequiresInventorySlot THEN 0
    ELSE IF It.ItemData.NonStackable THEN It.Amount
    ELSE CrossingDelta(userAmount[It.ItemID], It.Amount)

RECURSIVE PendingTotal(_, _)
PendingTotal(updated, n) ==
    IF n = 0 THEN 0
    ELSE PendingTotal(updated, n - 1) + PendingDelta(updated[n])

\* C28: in the baseline of SimulateRewards a pending delta of a stackable
\* item that occupies a slot changes the slot usage by +1 only when it takes
\* the held amount from zero to positive, by -1 only when it takes it from
\* positive to zero, and by 0 otherwise; a pending non-stackable delta
\* changes it by its signed amount.  (Without the inventory check the final
\* SlotAmount is the baseline.)
C28_PendingCrossingDelta ==
    (simResult # "none" /\ ~bCheckInventory) =>
      SlotAmount = slotCount + PendingTotal(InUpdatedItem, Len(InUpdatedItem))

\* the slot delta of a counted reward when a stackable reward follows the
\* crossing rule on the amount held
GrantDelta(Reward) ==
    IF FindItemData(Reward.TypeRowName).NonStackable
    THEN ProjectedDelta(Reward)
    ELSE CrossingDelta(userAmount[Reward.TypeRowName], Reward.Amount)

RECURSIVE GrantTotal(_, _)
\* the baseline plus those deltas over the first k rewards of the batch
GrantTotal(batch, k) ==
    IF k = 0 THEN slotCount + UpdatedSlots(InUpdatedItem, Len(InUpdatedItem))
    ELSE GrantTotal(batch, k - 1)
         + (IF Counted(batch[k], FALSE) THEN GrantDelta(batch[k]) ELSE 0)

\* C29: with the inventory check, the projected slot delta of a stackable
\* reward of the working batch, the item being held h times, is +1 exactly
\* when h = 0 and the amount is > 0, -1 exactly when h > 0 and
\* h + amount <= 0, and 0 otherwise: a negative reward of an item that is
\* not held does not lower the running total.
C29_StackableGrantDelta ==
    (simResult = "accepted" /\ bCheckInventory) =>
      SlotAmount = GrantTotal(InRewards, Len(InRewards))

\* the batch in the order p, a permutation of its indexes
Reordered(batch, p) == [k \in 1..Len(batch) |-> batch[p[k]]]

\* C30: the decision of SimulateRewards does not depend on the order of the
\* rewards in the batch: every permutation of the batch, simulated against
\* the same inventory, pending items, capacity and bCheckInventory, gives
\* the same decision.
C30_OrderIndependent ==
    simResult # "none" =>
      \A p \in Permutations(1..Len(simInput)) :
        SimulateRewards(Reordered(simInput, p), InUpdatedItem,
                        bCheckInventory, SimEnv).ok
          = (simResult = "accepted")

(***************************************************************************)
(* Claims about the persistence and the outcomes of a request (SpecGacha)  *)
(***************************************************************************)
\* the reward rows of the latest request are stored: GiveRewards took them
RewardRowsStored == lastRequest = "given"

\* the counters of the latest request are stored: the request came to
\* SetGachaCounter
CountersStored == lastRequest \in {"given", "rejected", "notgiven"}

\* C11: the counters of a request and its reward rows are persisted as one
\* unit: after a request, its reward rows are stored exactly when its
\* counters are.
C11_CountersWithRewardRows ==
    gachaPc = "idle" => (RewardRowsStored <=> CountersStored)

\* C14: a request against a pool whose TotalGachaWeight is <= 0 ends in an
\* EmptyPool outcome of its own, not in the silent return of a request that
\* had nothing to do.
C14_EmptyPoolSurfaced ==
    ( /\ gachaPc = "idle" /\ lastRequest # "none"
      /\ RewardData # NullRow /\ CampaignData # NullRow
      /\ RewardData.TotalGachaWeight <= 0 )
      => lastRequest = "EmptyPool"

\* the tier a pity draw asked AddPickupReward for
PityGroup ==
    IF lastDraw.path = "special" THEN CampaignData.SpecialPickupGroup
    ELSE CampaignData.NormalPickupGroup

\* the indexes of the rows of the pool whose tier is >= group
Qualifying(group) ==
    { i \in 1..Len(RewardData.GachaRandoms) :
        RewardData.GachaRandoms[i].PickupGroup >= group }

\* C15: AddPickupReward returns only rows whose PickupGroup is >= the group
\* asked for; every such row is a possible result, whatever its weight; and
\* it gives the None reward exactly when no row of the pool qualifies.
C15_PickupSubset ==
    lastDraw.path \in {"special", "normal"} =>
      LET rows == RewardData.GachaRandoms
          q == Qualifying(PityGroup)
          results == { AddPickupReward(RewardData, PityGroup, k) :
                         k \in PickupIndexes(RewardData, PityGroup) }
      IN  /\ (q = {}) <=> (lastDraw.reward = NoneReward)
          /\ q # {} => \E i \in q : /\ lastDraw.reward = rows[i].Reward
                                    /\ lastDraw.tier = rows[i].PickupGroup
          /\ results = IF q = {} THEN {NoneReward}
                       ELSE { rows[i].Reward : i \in q }

\* a pity draw has given a row of weight 0
C15_Witness ==
    /\ lastDraw.path = "special"
    /\ \E i \in Qualifying(PityGroup) :
         /\ RewardData.GachaRandoms[i].Weight = 0
         /\ lastDraw.reward = RewardData.GachaRandoms[i].Reward

\* C16: the normal and the special counter are >= 0 in every reachable
\* state, in memory and as stored.
C16_CountersNonNegative ==
    /\ NormalPickupCounter >= 0
    /\ SpecialPickupCounter >= 0
    /\ savedCounter.Normal >= 0
    /\ savedCounter.Special >= 0

\* a request has stored counters that a roll below both tiers had advanced
C16_Witness ==
    /\ gachaPc = "idle" /\ lastRequest = "given"
    /\ savedCounter.Normal > 0
    /\ savedCounter.Special > 0

\* C24: in a draw where, after both counters are incremented, the special
\* counter has reached SpecialTryCount and the normal counter has reached 10
\* (both pities enabled), the special pity path is taken and the normal pity
\* path is not: the reward comes from the rows of the special tier and both
\* counters are 0 afterwards.  Each draw adds exactly one reward.
C24_SpecialPityFirst ==
    /\ gachaPc = "draw" => Len(RewardHandlers) = Index
    /\ (/\ gachaPc = "draw" /\ lastDraw.path # "none"
        /\ CampaignData.SpecialPickupGroup > 0
        /\ CampaignData.NormalPickupGroup > 0
        /\ lastDraw.s0 + 1 >= CampaignData.SpecialTryCount
        /\ lastDraw.n0 + 1 >= NormalPityCount)
       => /\ lastDraw.path = "special"
          /\ NormalPickupCounter = 0 /\ SpecialPickupCounter = 0
          /\ \/ lastDraw.reward = NoneReward
             \/ lastDraw.tier >= CampaignData.SpecialPickupGroup

\* both pities were due in the last draw, which gave a row of the special tier
C24_Witness ==
    /\ gachaPc = "draw" /\ lastDraw.path = "special"
    /\ CampaignData.NormalPickupGroup > 0
    /\ lastDraw.s0 + 1 >= CampaignData.SpecialTryCount
    /\ lastDraw.n0 + 1 >= NormalPityCount
    /\ lastDraw.tier >= CampaignData.SpecialPickupGroup
    /\ Len(RewardHandlers) = Index

\* the counters after the last draw
CountersNow ==
    [Normal |-> NormalPickupCounter, Special |-> SpecialPickupCounter]

C26_LowRollKeepsNormalCounter ==
    (/\ gachaPc = "draw" /\ lastDraw.path = "roll"
     /\ CampaignData.SpecialPickupGroup = 0
     /\ CampaignData.NormalPickupGroup > 0
     /\ lastDraw.tier < CampaignData.NormalPickupGroup)
    => NormalPickupCounter = lastDraw.n0 + 1

\* the request names an unknown pool, a pool without campaign, or a pool
\* whose total weight is <= 0
BadPool ==
    \/ RewardData = NullRow
    \/ CampaignData = NullRow
    \/ RewardData.TotalGachaWeight <= 0

\* C31: a request that names an unknown pool, a pool with no campaign, a
\* pool with TotalGachaWeight <= 0, or a draw count <= 0 is refused: it
\* draws and gives nothing and leaves the stored counters of the pool as
\* they were.  (A request that is not refused has a pool that can be drawn
\* from and a count > 0.)
C31_RefusedRequestKeepsCounters ==
    [][ gachaPc = "idle" =>
          /\ BadPool => (lastRequest' = "refused" /\ gachaPc' = "idle")
          /\ gachaPc' = "draw" => (~BadPool /\ PickupCount' > 0)
          /\ gachaPc' = "idle" =>
               /\ lastRequest' = "refused"
               /\ savedCounter' = savedCounter
               /\ RewardHandlers' = RewardHandlers /\ Index' = Index
      ]_vars

\* a request with draw count 0 was refused on a pool whose stored counters
\* earlier requests had raised
C31_Witness ==
    /\ gachaPc = "idle" /\ lastRequest = "refused"
    /\ ~BadPool
    /\ savedCounter.Normal > 0 /\ savedCounter.Special > 0
    /\ savedCounter = preSaved

ReEntered ==
    \E a, b \in DOMAIN buildStack :
      /\ a < b
      /\ buildStack[a].Data = buildStack[b].Data
      /\ FindRewardData(buildStack[a].Data) # NullRow

\* C13: the expansion terminates on every row: when a row is entered again
\* while it is still being expanded, the expansion has failed with
\* CyclicRewardDefinition; it never recurses until the stack is exhausted.
C13_CycleFails ==
    /\ ReEntered => buildState = "CyclicRewardDefinition"
    /\ buildState # "overflow"

\* every entry of the row is atomic
AllAtomic(row) ==
    /\ \A i \in DOMAIN row.Statics : row.Statics[i].RewardType # "RewardData"
    /\ \A i \in DOMAIN row.Randoms : row.Randoms[i].Reward.RewardType # "RewardData"

\* C19: the expansion of a row whose entries are all atomic gives every
\* static entry in declared order, followed, when Randoms is not empty, by
\* exactly one of its entries, the first whose cumulative weight is >= the
\* number drawn in 1..TotalWeight; with Randoms empty it gives the static
\* entries only.
C19_FlatExpansion ==
    ( /\ buildState = "done"
      /\ FindRewardData(buildCalls[1].Data) # NullRow
      /\ AllAtomic(FindRewardData(buildCalls[1].Data)) )
      => LET row == FindRewardData(buildCalls[1].Data)
         IN  IF row.Randoms = <<>>
             THEN InRewardHandlers = row.Statics
             ELSE /\ Len(buildDraws) = 1
                  /\ buildDraws[1].RandomNumber \in 1..row.TotalWeight
                  /\ \E i \in DOMAIN row.Randoms :
                       /\ FirstReaching(row.Randoms, i, buildDraws[1].RandomNumber)
                       /\ InRewardHandlers = Append(row.Statics, row.Randoms[i].Reward)

\* the calls activation c made for its entry `at` (a static entry, or the
\* drawn entry)
CallsFrom(c, at) ==
    { x \in DOMAIN buildCalls :
        buildCalls[x].Parent = c /\ buildCalls[x].At = at }

\* the draws activation c made
DrawsOf(c) == { d \in DOMAIN buildDraws : buildDraws[d].Call = c }

Max(a, b) == IF a > b THEN a ELSE b

\* a reference met by activation c at `at` was expanded Amount times (not
\* at all for an Amount <= 0), each time the row it names
ExpandedAmountTimes(c, at, Reference) ==
    /\ Cardinality(CallsFrom(c, at)) = Max(Reference.Amount, 0)
    /\ \A x \in CallsFrom(c, at) : buildCalls[x].Data = Reference.TypeRowName

\* the atomic entries activation c met: its atomic statics, and its drawn
\* entry when that is atomic
AtomsMetBy(c) ==
    LET row == FindRewardData(buildCalls[c].Data)
    IN  IF row = NullRow THEN 0
        ELSE Cardinality({ i \in DOMAIN row.Statics :
                             row.Statics[i].RewardType # "RewardData" })
             + Cardinality({ d \in DrawsOf(c) :
                               /\ buildDraws[d].Hit > 0
                               /\ row.Randoms[buildDraws[d].Hit].Reward.RewardType
                                    # "RewardData" })

RECURSIVE AtomsMet(_)
\* the atomic entries the first n activations met
AtomsMet(n) == IF n = 0 THEN 0 ELSE AtomsMet(n - 1) + AtomsMetBy(n)

\* C20: a reference with Amount N, met as a static entry or as the drawn
\* entry, is expanded N times, each expansion making its own draw; a
\* reference with Amount <= 0 is not expanded and adds no reward.
C20_ExpandedAmountTimes ==
    buildState = "done" =>
      /\ \A c \in DOMAIN buildCalls :
           LET row == FindRewardData(buildCalls[c].Data)
           IN  row # NullRow =>
                 /\ \A i \in DOMAIN row.Statics :
                      row.Statics[i].RewardType = "RewardData"
                        => ExpandedAmountTimes(c, <<"statics", i>>, row.Statics[i])
                 /\ Cardinality(DrawsOf(c)) = IF row.Randoms = <<>> THEN 0 ELSE 1
                 /\ \A d \in DrawsOf(c) :
                      ( /\ buildDraws[d].Hit > 0
                        /\ row.Randoms[buildDraws[d].Hit].Reward.RewardType
                             = "RewardData" )
                        => ExpandedAmountTimes(c, <<"random", buildDraws[d].Hit>>,
                                               row.Randoms[buildDraws[d].Hit].Reward)
      /\ Len(InRewardHandlers) = AtomsMet(Len(buildCalls))

\* a reference of Amount 2 has been expanded twice, the two expansions
\* drawing different numbers
C20_Witness ==
    /\ buildState = "done"
    /\ \E x, y \in DOMAIN buildCalls :
         /\ x # y
         /\ buildCalls[x].Parent = buildCalls[y].Parent
         /\ buildCalls[x].At = buildCalls[y].At
         /\ \E d \in DrawsOf(x), e \in DrawsOf(y) :
              buildDraws[d].RandomNumber # buildDraws[e].RandomNumber

(***************************************************************************)
(* Claims about the persistence of a batch (SpecInv)                       *)
(***************************************************************************)
\* the item stacks: AddInventoryItem adds to a row of it that exists
CanStack(ItemID) == FindItemData(ItemID).MaxStackAmount > 1

\* C21: after any sequence of AddInventoryItem and RemoveInventoryItem calls
\* every stored row of a stackable item has an amount in 1..MaxStackAmount:
\* the amount is clamped also when the item is first inserted, and a row
\* is deleted instead of being stored with amount 0.
C21_StackAmountsInRange ==
    \A row \in dbItem :
      CanStack(row.ItemID) =>
        row.Amount \in 1..FindItemData(row.ItemID).MaxStackAmount

\* C22: granting a non-stackable item with amount N inserts N rows, one per
\* unit, each with an identifier of its own: no stored row of a
\* non-stackable item holds an amount above 1, and no two stored rows share
\* an identifier.
C22_NonStackableOneUnitRows ==
    /\ \A row \in dbItem : ~CanStack(row.ItemID) => row.Amount <= 1
    /\ \A r1, r2 \in dbItem : r1.ItemUID = r2.ItemUID => r1 = r2

\* the queries an accepted RemoveInventoryItem call has just added
RemoveQueued(before, after) == SubSeq(after, Len(before) + 1, Len(after))

\* C23: when RemoveInventoryItem brings the amount of an item to zero, the
\* queries it adds to the task delete the item's inventory row and, if the
\* item is equipped, its equipment rows; when the amount stays positive it
\* adds no delete.
C23_RemoveToZeroDeletes ==
    [][ (lastCall'.call = "RemoveInventoryItem" /\ lastCall'.ok
           /\ Task' # Task) =>
          LET queued == RemoveQueued(Task, Task')
              uid == lastCall'.ItemUID
              after == ApplyQueries(DbRows, queued, Len(queued))
              Has(kind) == \E i \in 1..Len(queued) :
                              queued[i].Query = kind /\ queued[i].ItemUID = uid
          IN  IF lastCall'.Amount = 0
              THEN /\ Has("DeleteInventory")
                   /\ uid \notin after.Inventory
                   /\ (uid \in dbEquipment =>
                         (Has("DeleteEquipment") /\ uid \notin after.Equipment))
              ELSE \A i \in 1..Len(queued) :
                     queued[i].Query \notin
                       {"DeleteItem", "DeleteInventory", "DeleteEquipment"}
      ]_vars

\* an equipped item has just been removed down to amount 0
C23_Witness ==
    /\ lastCall.call = "RemoveInventoryItem" /\ lastCall.ok
    /\ lastCall.Amount = 0
    /\ lastCall.ItemUID \in dbEquipment
    /\ taskState = "open"
    /\ \E i \in 1..Len(Task) :
         Task[i] = Query("DeleteEquipment", lastCall.ItemUID, 0)

\* C1: a batch is applied all-or-nothing; no row, the item row of a newly
\* added inventory item included, is written outside the batch's atomic
\* unit, so a commit that fails leaves the stored inventory exactly as it
\* was before the batch.
C1_FailedCommitLeavesStore ==
    taskState = "failed" => DbRows = dbAtBegin

\* the amount the user data holds of the item with this ItemUID, -1 when it
\* holds no such item
HeldAmount(items, uid) ==
    IF \E item \in items : item.ItemUID = uid
    THEN (CHOOSE item \in items : item.ItemUID = uid).Amount
    ELSE -1

\* C32: RemoveInventoryItem called with a null item, a negative amount or an
\* amount above the held amount returns failure, leaves the amounts as they
\* are and queues nothing; called with 0 <= amount <= held it lowers the
\* held amount by exactly that amount.  (A call that fails changes nothing;
\* a call that succeeds had 0 <= amount <= held and lowers by the amount.)
C32_RemoveExactOrRefuse ==
    [][ lastCall'.call = "RemoveInventoryItem" =>
          IF ~lastCall'.ok
          THEN userItems' = userItems /\ Task' = Task
          ELSE LET uid == lastCall'.ItemUID
                   amount == lastCall'.InRemoveAmount
                   held == HeldAmount(userItems, uid)
               IN  /\ 0 <= amount /\ amount <= held
                   /\ HeldAmount(userItems', uid) = held - amount
      ]_vars


(***************************************************************************)
(* Claims about the video player (SpecVideo)                               *)
(***************************************************************************)
\* no video is opening or playing
PlaybackStopped == mediaState \notin {"opening", "playing"}

\* C33: the input block PlayVideo applies is held only while a video is
\* playing: once playback has stopped for any reason (all videos finished,
\* the media failed to open after PlayVideo returned, or the next video of
\* the sequence could not be started) the input block is released and the
\* video UI is closed.  Every handler runs to its end in one step, so the
\* release the claim promises has to be there whenever playback is stopped.
C33_BlockOnlyWhilePlaying ==
    PlaybackStopped => (~BlockHandler /\ ~uiOpen)


\* the step is a run of OnMediaPlaybackEnd
EndHandled == lastVideoCall'.call = "OnMediaPlaybackEnd"

\* the video playing is the video at CurrentVideoIndex, and it is no loop
PlayingNonLoopAtIndex ==
    /\ mediaState = "playing"
    /\ IsValidIndex(VideoQueue, CurrentVideoIndex)
    /\ MediaHandler = At(VideoQueue, CurrentVideoIndex)
    /\ ~MediaHandler.bLoop

\* the first index after i of a video that is no loop, INDEX_NONE if none
FirstNonLoopAfter(queue, i) ==
    IF \E j \in (i + 1)..(Len(queue) - 1) : ~At(queue, j).bLoop
    THEN CHOOSE j \in (i + 1)..(Len(queue) - 1) :
           /\ ~At(queue, j).bLoop
           /\ \A k \in (i + 1)..(j - 1) : At(queue, k).bLoop
    ELSE INDEX_NONE

\* the video the sequence goes to when the video at i, no loop, has ended
AfterNonLoop(queue, i) ==
    IF /\ i + 1 < Len(queue)
       /\ At(queue, i + 1).bLoop
       /\ At(queue, i + 1).GroupID = At(queue, i).GroupID
    THEN i + 1
    ELSE FirstNonLoopAfter(queue, i)

\* the sequence goes on from the video at CurrentVideoIndex as claimed
AdvancesAsClaimed ==
    LET target == AfterNonLoop(VideoQueue, CurrentVideoIndex)
    IN  IF target = INDEX_NONE
        THEN /\ lastVideoCall'.did = "finished"
             /\ VideoQueue' = <<>>
             /\ mediaState' = "closed"
        ELSE /\ CurrentVideoIndex' = target
             /\ VideoQueue' = VideoQueue
             /\ lastVideoCall'.did \in {"started", "notstarted"}
             /\ lastVideoCall'.did = "started" =>
                  /\ MediaHandler' = At(VideoQueue, target)
                  /\ mediaState' = "opening"

\* the sequence stays where it is
StaysInSequence ==
    /\ CurrentVideoIndex' = CurrentVideoIndex
    /\ VideoQueue' = VideoQueue
    /\ MediaHandler' = MediaHandler

\* an end event of a loop video, and one received while a video is opening,
\* do not advance the sequence; the index never decreases during a sequence
NeverAdvancesOtherwise ==
    /\ (EndHandled /\ mediaState = "opening") => StaysInSequence
    /\ (/\ EndHandled
        /\ IsValidIndex(VideoQueue, CurrentVideoIndex)
        /\ At(VideoQueue, CurrentVideoIndex).bLoop) => StaysInSequence
    /\ lastVideoCall'.call # "PlayVideos" =>
         CurrentVideoIndex' >= CurrentVideoIndex

C35_RefusedPlayKeepsSequence ==
    [][ lastVideoCall'.call = "PlayVideos" =>
          /\ mediaState = "playing" =>
               /\ lastVideoCall'.did = "refused"
               /\ VideoQueue' = VideoQueue
               /\ CurrentVideoIndex' = CurrentVideoIndex
               /\ MediaHandler' = MediaHandler
          /\ VideoQueue' = <<>> =>
               /\ lastVideoCall'.did = "refused"
               /\ mediaState' = mediaState
               /\ MediaHandler' = MediaHandler
      ]_vars


=============================================================================
